---- MODULE Spec2Model ----
(***************************************************************************)
(* Model of the csi-thalassa controller's AttachmentCoordinator:           *)
(* Driver.ControllerPublishVolume and Driver.ControllerUnpublishVolume     *)
(* running against the remote IaaS service (volumes, attachments,          *)
(* machines) and, optionally, the orchestrator's node directory.           *)
(*                                                                         *)
(* Every remote call of a handler is one atomic step; the local            *)
(* computation that follows a call belongs to the same step.  The remote   *)
(* service applies one write at a time per volume.                         *)
(***************************************************************************)
EXTENDS Integers, Sequences, FiniteSets, TLC

\* ---------------------------------------------------------------- bounds
\* number of handler invocations that may be in flight in the concurrent
\* specification
MaxCalls == 3
\* seconds the remote service takes to answer one status query when it is
\* slow (it answers at once otherwise)
SlowLatency == 150

\* largest volume the platform provisions, in GiB
MaxGiB == 3

\* largest size a create request asks for, in GiB
MaxCreateGiB == 2

\* number of ControllerExpandVolume calls that can be in progress at once
MaxExpand == 2

\* number of volumes the remote service lets the organisation create
MaxVolumes == 2

\* number of snapshots the remote service lets the organisation hold
MaxSnapshots == 3

\* times the model lets one path be mounted over itself and one device be
\* formatted
MaxRepeat == 2

\* number of checks a health checker is configured with, at most
MaxChecks == 4

\* number of Probe calls that can be in progress at once
MaxProbes == 3

\* ------------------------------------------------------ program constants
\* wait.PollUntilContextTimeout(ctx, 10*time.Second, 5*time.Minute, true, ..)
PollInterval == 10
\* the blkid exit code that says the device carries no identifiers
blkidExitStatusNoIdentifiers == 2
PollTimeout == 300

\* ------------------------------------------------------------ environment
\* volumes known to the remote service; any other id is answered 404
ExistingVolumes == {"v1"}
\* volume ids a request may carry ("" is the missing id)
VolumeIds == {"", "v1", "v9"}

\* the remote machine directory, in the order ListMachines returns it;
\* inScope: the machine lies in the driver's region and VPC
Machines ==
    << [Identity |-> "m1", Name |-> "node-a", Slug |-> "s1",  inScope |-> TRUE],
       [Identity |-> "m2", Name |-> "dup",    Slug |-> "s2",  inScope |-> FALSE],
       [Identity |-> "m3", Name |-> "node-c", Slug |-> "dup", inScope |-> TRUE] >>

MachineIdentities == {Machines[i].Identity : i \in 1..Len(Machines)}

\* node references a request may carry
NodeIds == {"", "m1", "m3", "node-a", "dup", "s2", "ghost"}

\* the orchestrator's node directory: node name -> Spec.ProviderID, given as
\* the parts strings.Split(providerID, "://") yields (<<"">> is the empty id)
KubeNodeNames == {"node-a", "dup", "node-c", "m3"}
KubeProviderID(n) ==
    CASE n = "node-a" -> <<"thalassa", "m1">>
      [] n = "dup"    -> <<"thalassa", "m2">>
      [] n = "node-c" -> <<"m3">>
      [] n = "m3"     -> <<"">>
      [] OTHER        -> <<"">>

\* gRPC codes a handler can end with; "Unknown" is what status.Code gives for
\* an error that carries no gRPC status (a plain Go error)
Codes == {"OK", "InvalidArgument", "AlreadyExists", "NotFound",
          "FailedPrecondition", "Internal", "Unknown"}

\* ------------------------------------------------------- status strings
\* canonical (lower-case) volume statuses held by the remote service
VolumeStatuses == {"available", "attaching", "attached", "detaching"}

\* the letter cases in which the remote service may render a status
Renderings(s) ==
    CASE s = "available" -> {"available", "Available"}
      [] s = "attaching" -> {"attaching", "Attaching"}
      [] s = "attached"  -> {"attached", "Attached"}
      [] s = "detaching" -> {"detaching", "Detaching"}
      [] s = "creating"  -> {"creating", "Creating"}
      [] s = "failed"    -> {"failed", "Failed"}
      [] OTHER           -> {s}

ToLower(s) ==
    CASE s \in {"available", "Available"} -> "available"
      [] s \in {"attaching", "Attaching"} -> "attaching"
      [] s \in {"attached", "Attached"}   -> "attached"
      [] s \in {"detaching", "Detaching"} -> "detaching"
      [] s \in {"creating", "Creating"}   -> "creating"
      [] s \in {"failed", "Failed"}       -> "failed"
      [] s \in {"block", "Block"}         -> "block"
      [] s \in {"fast", "Fast", "FAST"}   -> "fast"
      [] OTHER                            -> s

\* strings.EqualFold
EqualFold(a, b) == ToLower(a) = ToLower(b)

\* the status string the snapshot wait is given to compare with
SnapshotStatusAvailable == "Available"

\* ------------------------------------------------------------------ state
VARIABLES
    kubeConfig,   \* d.kubeConfig != "": the node-directory lookaside is on
    volStatus,    \* remote: status of each existing volume (canonical case)
    volAttach,    \* remote: Volume.Attachments, the AttachedToIdentity of each
    call,         \* the handler invocation running in each slot
    workload,     \* the requests the orchestrator may issue, and where
    config,       \* Driver fields read by the volume and snapshot handlers
    volumes,      \* remote: the volumes of the organisation, oldest first
    snapshots,    \* remote: the snapshots of the organisation
    rpc,          \* the volume or snapshot handler invocation in progress
    validateAttachment,  \* d.validateAttachment
    host,         \* the node: signatures, link states, mount table
    nodeCall,     \* the node handler invocation running in each slot
    health,       \* HealthChecker.Check: the checks of one evaluation
    server,       \* Driver.Run: the listener, the readiness flag and its lock
    expand,       \* the ControllerExpandVolume invocation in each slot
    interrupted   \* the NodeStageVolume call that was cut short, if any

\* the state of the volume and snapshot lifecycle handlers
lifecycleVars == <<config, volumes, snapshots, rpc>>

\* the state of the node handlers
nodeVars == <<validateAttachment, host, nodeCall>>

\* what the attachment handlers never touch
otherVars == <<lifecycleVars, nodeVars>>

\* the state of the attachment handlers
attachVars == <<kubeConfig, volStatus, volAttach, call, workload>>

\* the state of the process around the handlers, and of the resize handlers
processVars == <<health, server, expand, interrupted>>

vars == <<kubeConfig, volStatus, volAttach, call, workload, otherVars,
          processVars>>

Slots == 1..MaxCalls

\* a slot with no invocation in it
IdleCall ==
    [kind |-> "none", pc |-> "idle", vol |-> "", node |-> "", ref |-> "",
     atts |-> <<>>, target |-> "", code |-> "", elapsed |-> 0, polls |-> 0,
     cancelled |-> FALSE, volErr |-> "nil", machErr |-> "nil",
     nGetMachine |-> 0, nList |-> 0, nAttach |-> 0, nDetach |-> 0,
     faulted |-> FALSE, attachedAtDetach |-> FALSE]

\* the handler returns: status code recorded, nothing runs after it
Return(r, code) == [r EXCEPT !.pc = "done", !.code = code]

\* --------------------------------------------------- client-go: Check
\* HTTP responses of the remote service: status code and whether the body
\* parses as a ServerErrorMessage
Response(status, json) == [status |-> status, json |-> json]

\* thalassaCloudClient.Check: the error value made from a response
Check(resp) ==
    IF resp.status >= 400
    THEN CASE resp.status = 404 ->
                  IF ~resp.json THEN "ErrNotFound" ELSE "Join(ErrNotFound,msg)"
           [] resp.status = 400 ->
                  IF ~resp.json THEN "ErrBadRequest" ELSE "Join(ErrBadRequest,msg)"
           [] OTHER -> "ErrStatus"
    ELSE "nil"

\* the error of one client call: Do fails before any response when the
\* context is already cancelled, otherwise Check classifies the response
ClientErr(cancelled, resp) == IF cancelled THEN "ErrTransport" ELSE Check(resp)

\* responses the remote service can give when the resource exists / is absent
ErrorResponses == {Response(500, FALSE), Response(400, TRUE)}
FoundResponses ==
    {Response(200, TRUE)} \cup (IF workload.faults THEN ErrorResponses ELSE {})
AbsentResponses == {Response(404, FALSE), Response(404, TRUE)}

\* GET /v1/volumes/{identity}
GetVolumeResponses(v) ==
    IF v \in ExistingVolumes THEN FoundResponses ELSE AbsentResponses

\* GET /v1/machines/{identity}
GetMachineResponses(id) ==
    IF id \in MachineIdentities THEN FoundResponses ELSE AbsentResponses

\* the errors Check makes from a 404
NotFoundErrors == {"ErrNotFound", "Join(ErrNotFound,msg)"}

\* a call ended with an error that is not a 404: the remote service or the
\* transport failed, or the remote service refused the request
Fault(err) == err \notin ({"nil"} \cup NotFoundErrors)
Mark(r, err) == [r EXCEPT !.faulted = @ \/ Fault(err)]

\* `err == client.ErrNotFound` in the publish/unpublish handlers
IsErrNotFound(err) == err = "ErrNotFound"

\* ----------------------------------------------- remote service: writes
\* a volume has a live attachment to a machine other than m
AttachedElsewhere(v, m) == \E i \in 1..Len(volAttach[v]) : volAttach[v][i] # m

AttachedTo(v, m) == \E i \in 1..Len(volAttach[v]) : volAttach[v][i] = m

\* POST /v1/volumes/{v}/attach, applied atomically per volume: refused when
\* the volume is attached to another machine
AttachResponses(v, m) ==
    IF v \notin ExistingVolumes THEN AbsentResponses
    ELSE IF AttachedElsewhere(v, m) THEN ErrorResponses
    ELSE FoundResponses

\* POST /v1/volumes/{v}/detach
DetachResponses(v, m) ==
    IF v \notin ExistingVolumes THEN AbsentResponses ELSE FoundResponses

\* ======================================== volume and snapshot lifecycle
\* sizes are counted in units of half a GiB, so that a byte count that is
\* no whole number of GiB exists in the model
giB == 2

minimumVolumeSizeInBytes == 1 * giB
maximumVolumeSizeInBytes == MaxGiB * giB
defaultVolumeSizeInBytes == 2 * giB

\* req.CapacityRange: nil, or the pair (RequiredBytes, LimitBytes)
CapacityRanges ==
    {[present |-> FALSE, required |-> 0, limit |-> 0]}
    \cup [present : {TRUE},
          required : 0..(maximumVolumeSizeInBytes + 1),
          limit : 0..(maximumVolumeSizeInBytes + 1)]

\* the capacity ranges the create requests carry
CreateRanges ==
    {c \in CapacityRanges : /\ c.required <= MaxCreateGiB * giB
                            /\ c.limit <= MaxCreateGiB * giB}

\* the size a capacity range asks for, or an error
getStorageSizeFromCapacityRange(capRange) ==
    LET requiredSet == capRange.required > 0
        limitSet    == capRange.limit > 0
        fail        == [size |-> 0, err |-> TRUE]
        ok(n)       == [size |-> n, err |-> FALSE]
    IN  IF ~capRange.present THEN ok(defaultVolumeSizeInBytes)
        ELSE IF ~requiredSet /\ ~limitSet THEN ok(defaultVolumeSizeInBytes)
        ELSE IF requiredSet /\ limitSet /\ capRange.limit < capRange.required
             THEN fail
        ELSE IF limitSet /\ capRange.limit < minimumVolumeSizeInBytes THEN fail
        ELSE IF requiredSet /\ capRange.required > maximumVolumeSizeInBytes
             THEN fail
        ELSE IF limitSet /\ capRange.limit > maximumVolumeSizeInBytes THEN fail
        ELSE IF requiredSet /\ capRange.required < minimumVolumeSizeInBytes
             THEN ok(minimumVolumeSizeInBytes)
        ELSE IF requiredSet THEN ok(capRange.required)
        ELSE ok(capRange.limit)

\* req.VolumeCapabilities: each capability has an access mode and an access
\* type; the driver supports one mode, and the types block and mount
supportedAccessMode == "SINGLE_NODE_WRITER"
CapabilitySets ==
    { <<>>,
      <<[mode |-> "SINGLE_NODE_WRITER", type |-> "mount"]>>,
      <<[mode |-> "SINGLE_NODE_WRITER", type |-> "block"]>>,
      <<[mode |-> "MULTI_NODE_MULTI_WRITER", type |-> "mount"]>>,
      <<[mode |-> "SINGLE_NODE_WRITER", type |-> "mount"],
        [mode |-> "SINGLE_NODE_WRITER", type |-> "none"]>> }

\* validateCapabilities: the set of violations
validateCapabilities(caps) ==
    {"unsupported access mode" : i \in {j \in 1..Len(caps) :
                                        caps[j].mode # supportedAccessMode}}
    \cup {"unsupported access type" : i \in {j \in 1..Len(caps) :
                                        caps[j].type \notin {"block", "mount"}}}

\* req.AccessibilityRequirements: nil (the empty sequence here), or the
\* requisite topologies; a topology has a "region" segment or none ("")
Region == "r1"
TopologyRequirements ==
    { <<>>, <<"r1">>, <<"">>, <<"", "r2">>, <<"r1", "r2">> }

\* the first requisite topology of another region, 0 when there is none
RECURSIVE ForeignTopology(_, _)
ForeignTopology(requisite, i) ==
    IF i > Len(requisite) THEN 0
    ELSE IF requisite[i] # "" /\ requisite[i] # Region THEN i
    ELSE ForeignTopology(requisite, i + 1)

\* req.Name, req.Parameters["volume-identity"], req.Parameters["volume-type"]
VolumeNames == {"pvc-0", "pvc-1"}
VolumeIdentityParams == {"", "vol-0"}
VolumeTypeParams == {"", "fast", "FAST", "vt-1", "nope"}

\* req.VolumeContentSource: none, or a snapshot id
NoSource == "nil"
ContentSources == {NoSource, "", "snap-1", "snap-9"}

\* the identities the remote service gives to new volumes
VolumeIdentities == {"vol-1", "vol-2", "vol-3", "vol-4"}

\* the volume that exists from the start; Size is what the remote service
\* keeps, in GiB; Requested is history: the byte count its create asked for
PreExisting ==
    [Identity |-> "vol-0", Name |-> "pvc-0", Size |-> 1, Requested |-> giB]

\* req.SnapshotId of a delete
SnapshotIds == {"", "snap-1", "snap-9"}

\* what ListVolumeTypes can answer: the volume types of the organisation
VolumeTypeLists ==
    { <<>>,
      <<[Identity |-> "vt-1", Name |-> "Block"],
        [Identity |-> "vt-2", Name |-> "Fast"]>>,
      <<[Identity |-> "vt-1", Name |-> "fast"],
        [Identity |-> "fast", Name |-> "slow"]>>,
      <<[Identity |-> "", Name |-> "block"]>> }

\* labels and annotations are maps from keys to values
Map(keys, val) == [k \in keys |-> val]
csiDriverLabel == "k8s.thalassa.cloud/csi-driver"
csiDriverNameLabel == "k8s.thalassa.cloud/csi-driver-name"
clusterIdentityLabel == "k8s.thalassa.cloud/cluster-identity"
descriptionAnnotation == "k8s.thalassa.cloud/description"

\* the Driver fields the lifecycle handlers read: d.CustomLabels,
\* d.CustomAnnotations, d.clusterIdentity, d.defaultVolumesPageSize
DriverConfigs ==
    { [CustomLabels |-> Map({}, ""), CustomAnnotations |-> Map({}, ""),
       clusterIdentity |-> "", defaultVolumesPageSize |-> 0],
      [CustomLabels |-> Map({"team"}, "storage"),
       CustomAnnotations |-> Map({"owner"}, "ops"),
       clusterIdentity |-> "c1", defaultVolumesPageSize |-> 1],
      [CustomLabels |-> Map({"team", csiDriverLabel, clusterIdentityLabel},
                            "operator"),
       CustomAnnotations |-> Map({descriptionAnnotation}, "operator"),
       clusterIdentity |-> "c1", defaultVolumesPageSize |-> 2] }

\* a snapshot the organisation has before the driver makes any
ExistingSnapshot ==
    [Identity |-> "snap-1", Name |-> "snap-a", Status |-> "available",
     VolumeIdentity |-> "vol-0"]

\* the identities of the snapshots the remote service holds
SnapshotIdentities == {s.Identity : s \in snapshots}

\* no lifecycle handler is running; cancelled is the state of the request
\* context, observed the snapshot status the wait saw last, capRange the
\* capacity range of a request whose size is being resolved
IdleRpc ==
    [kind |-> "none", pc |-> "idle", name |-> "", size |-> 0, ref |-> "",
     code |-> "", reason |-> "", remote |-> <<>>, found |-> <<>>,
     typeParam |-> "", types |-> <<>>, typeId |-> "", source |-> NoSource,
     volumeReq |-> <<>>, result |-> "", maxEntries |-> 0, entries |-> 0,
     err |-> "nil", cancelled |-> FALSE, observed |-> "",
     capRange |-> [present |-> FALSE, required |-> 0, limit |-> 0]]

\* the handler returns
Finish(r, code, reason) == [r EXCEPT !.pc = "done", !.code = code,
                                     !.reason = reason]

\* the lifecycle handlers as they stand while only attachments are handled
LifecycleAtRest ==
    /\ config \in {d \in DriverConfigs : d.CustomLabels = Map({}, "")
                                         /\ d.clusterIdentity = ""}
    /\ volumes = <<>>
    /\ snapshots = {}
    /\ rpc = IdleRpc

\* ================================================================== node
\* the block devices of the attached volumes, found under the by-id
\* directory by the volume id; the paths the orchestrator stages and
\* publishes on
Devices == VolumeIds \ {""}
StagingPaths == {"", "/staging/a"}
TargetPaths == {"", "/target/a"}
MountPoints == (StagingPaths \cup TargetPaths) \ {""}

\* req.VolumeCapability: nil, block access, or mount access with FsType
\* and MountFlags
NodeCapabilities ==
    { [type |-> "nil", fsType |-> "", flags |-> <<>>],
      [type |-> "block", fsType |-> "", flags |-> <<>>],
      [type |-> "mount", fsType |-> "", flags |-> <<>>],
      [type |-> "mount", fsType |-> "", flags |-> <<"noatime">>],
      [type |-> "mount", fsType |-> "xfs", flags |-> <<"noatime">>] }

\* no node handler is running in the slot
\* probedSigned and probedMounted record what the device and the path
\* really were when the handler probed them, osFailed that an OS command
\* failed, nFormat and nMount the format and mount commands it invoked,
\* cmds every OS command it ran, mountCalls the filesystem type and the
\* options of each Mount it made, usage the Usage of a statistics
\* response; reqFsType is the FsType of the request,
\* fsType and options what the handler made of the request
IdleNodeCall ==
    [kind |-> "none", pc |-> "idle", vol |-> "", staging |-> "",
     target |-> "", access |-> "", reqFsType |-> "", fsType |-> "",
     options |-> <<>>, code |-> "",
     noFormat |-> FALSE, probedSigned |-> FALSE, probedMounted |-> FALSE,
     osFailed |-> FALSE, nFormat |-> 0, nMount |-> 0, cmds |-> {},
     mountCalls |-> <<>>, usage |-> <<>>]

\* the content of /sys/class/block/<dev>/device/state IsAttached wants
runningState == "running"

\* the host as it is before anything is staged: a device may carry a
\* filesystem already, its state file reads "running" with or without the
\* newline of sysfs or something else, and findmnt reports the mounts of
\* the host shared or not. mounted counts the mounts stacked on a path,
\* device tells that what is mounted there is a device node (a raw block
\* publish), formats counts the mkfs runs that completed on a device
InitialHosts ==
    [signed      : [Devices -> BOOLEAN],
     state       : [Devices -> {"running", "running\n", "offline\n"}],
     propagation : {"shared", "private"},
     mounted     : {[p \in MountPoints |-> 0]},
     device      : {[p \in MountPoints |-> FALSE]},
     formats     : {[d \in Devices |-> 0]}]

\* the node handlers as they stand while the controller is looked at
NodeAtRest ==
    /\ validateAttachment = FALSE
    /\ host = [signed |-> [d \in Devices |-> FALSE],
               state |-> [d \in Devices |-> "running"],
               propagation |-> "shared",
               mounted |-> [p \in MountPoints |-> 0],
               device |-> [p \in MountPoints |-> FALSE],
               formats |-> [d \in Devices |-> 0]]
    /\ nodeCall = [c \in {1} |-> IdleNodeCall]

\* ------------------------------------------------------------------ Init
TypeOK ==
    /\ kubeConfig \in BOOLEAN
    /\ volStatus \in [ExistingVolumes -> VolumeStatuses]
    /\ \A v \in ExistingVolumes : Len(volAttach[v]) <= 1
    /\ \A c \in Slots : call[c].code \in Codes \cup {""}

\* no health evaluation is running
IdleHealth == [pc |-> "idle", checks |-> <<>>, err |-> "", result |-> ""]

\* the process before Run is called
IdleServer ==
    [phase |-> "new", ready |-> FALSE, readyMu |-> "", unguarded |-> {},
     probe |-> <<>>]

\* the process as it stands while the handlers alone are looked at
ProcessAtRest ==
    /\ health = IdleHealth
    /\ server = IdleServer
    /\ expand = <<>>
    /\ interrupted = <<>>

InitRemote ==
    /\ volStatus = [v \in ExistingVolumes |-> "available"]
    /\ volAttach = [v \in ExistingVolumes |-> <<>>]
    /\ call = [c \in Slots |-> IdleCall]

Init ==
    /\ kubeConfig \in BOOLEAN
    /\ InitRemote
    /\ ProcessAtRest
    /\ workload = [slots |-> {1}, vols |-> VolumeIds, nodes |-> NodeIds,
                   caps |-> BOOLEAN, readonly |-> BOOLEAN, latencies |-> {0},
                   faults |-> TRUE, burst |-> FALSE, casing |-> "any"]
    /\ LifecycleAtRest
    /\ NodeAtRest

\* a request can be taken by slot c: the slot is free, and the slots are
\* filled in order; in a burst the requests arrive before any call returns
CanStart(c) ==
    /\ c \in workload.slots
    /\ call[c].pc = "idle"
    /\ \A b \in workload.slots : b < c => call[b].pc # "idle"
    /\ workload.burst => \A b \in workload.slots : call[b].pc # "done"

\* ------------------------------------------------- ControllerPublishVolume
\* request validation, before any remote call
PublishValidate(vol, node, hasCap, readonly) ==
    IF vol = "" THEN "InvalidArgument"
    ELSE IF node = "" THEN "InvalidArgument"
    ELSE IF ~hasCap THEN "InvalidArgument"
    ELSE IF readonly THEN "AlreadyExists"
    ELSE "OK"

\* a ControllerPublishVolume request arrives in a free slot
PublishStart(c) ==
    /\ CanStart(c)
    /\ \E vol \in workload.vols, node \in workload.nodes,
          hasCap \in workload.caps, readonly \in workload.readonly :
         LET r == [IdleCall EXCEPT !.kind = "publish", !.vol = vol,
                                   !.node = node, !.ref = node]
             v == PublishValidate(vol, node, hasCap, readonly)
         IN  call' = [call EXCEPT ![c] =
                 IF v # "OK" THEN Return(r, v) ELSE [r EXCEPT !.pc = "getVolume"]]
    /\ UNCHANGED <<processVars, kubeConfig, volStatus, volAttach, workload,
                   otherVars>>

\* vol, err := d.iaas.GetVolume(ctx, req.VolumeId)
PublishGetVolume(c) ==
    /\ call[c].kind = "publish" /\ call[c].pc = "getVolume"
    /\ \E resp \in GetVolumeResponses(call[c].vol) :
         LET err == ClientErr(call[c].cancelled, resp)
             r   == Mark(call[c], err)
         IN  call' = [call EXCEPT ![c] =
                 IF err # "nil"
                 THEN IF IsErrNotFound(err)
                      THEN Return([r EXCEPT !.volErr = err], "NotFound")
                      ELSE Return([r EXCEPT !.volErr = err], "Unknown")
                 ELSE [r EXCEPT !.atts = volAttach[r.vol],
                                !.pc = IF kubeConfig THEN "kube" ELSE "getMachine"]]
    /\ UNCHANGED <<processVars, kubeConfig, volStatus, volAttach, workload,
                   otherVars>>

\* getNodeMachineIdentity: the machine identity of a cluster node, or the
\* error code; lookupFails: building the client or reading the node failed
NodeMachineIdentity(nodeName, lookupFails) ==
    IF lookupFails \/ nodeName \notin KubeNodeNames
    THEN [err |-> "Internal", id |-> ""]
    ELSE LET parts == KubeProviderID(nodeName)
         IN  IF parts = <<"">> THEN [err |-> "Internal", id |-> ""]
             ELSE IF Len(parts) # 2 THEN [err |-> "Internal", id |-> ""]
             ELSE [err |-> "nil", id |-> parts[2]]

\* if d.kubeConfig != "" { providerID, err := d.getNodeMachineIdentity(..) }
PublishKube(c) ==
    /\ call[c].kind = "publish" /\ call[c].pc = "kube"
    /\ \E lookupFails \in BOOLEAN :
         LET r   == call[c]
             res == NodeMachineIdentity(r.node, lookupFails \/ r.cancelled)
         IN  call' = [call EXCEPT ![c] =
                 IF res.err # "nil" THEN Return([r EXCEPT !.faulted = TRUE], res.err)
                 ELSE [r EXCEPT !.node = res.id, !.pc = "getMachine"]]
    /\ UNCHANGED <<processVars, kubeConfig, volStatus, volAttach, workload,
                   otherVars>>

\* the scan of the machine list: index of the first machine whose name,
\* identity or slug equals the reference, 0 when none does
RECURSIVE FirstMatch(_, _, _)
FirstMatch(machines, ref, i) ==
    IF i > Len(machines) THEN 0
    ELSE IF \/ machines[i].Name = ref
            \/ machines[i].Identity = ref
            \/ machines[i].Slug = ref
         THEN i
         ELSE FirstMatch(machines, ref, i + 1)

\* the loop without the wrong-machine test after it: the volume is attached
\* again whatever it is attached to
AttachmentScanNoConflict(atts, target, i, attachedToMachine) ==
    IF \E j \in i..Len(atts) : atts[j] = target THEN "already" ELSE "attach"

\* the loop without the early return for the target machine
AttachmentScanNoIdempotence(atts, target, i, attachedToMachine) ==
    IF atts # <<>> THEN "wrong" ELSE "attach"

\* the loop over vol.Attachments: "already" when one is on the target,
\* "wrong" when the volume is attached and none is, "attach" when unattached
RECURSIVE AttachmentScan(_, _, _, _)
AttachmentScan(atts, target, i, attachedToMachine) ==
    IF i > Len(atts)
    THEN IF attachedToMachine # "" THEN "wrong" ELSE "attach"
    ELSE IF atts[i] = target THEN "already"
         ELSE AttachmentScan(atts, target, i + 1, atts[i])

\* the handler once attachToIdentity is known, up to the attach call
PublishCheckAttachment(r, target) ==
    LET res == AttachmentScan(r.atts, target, 1, "")
        r2  == [r EXCEPT !.target = target]
    IN  CASE res = "already" -> Return(r2, "OK")
          [] res = "wrong"   -> Return(r2, "FailedPrecondition")
          [] OTHER           -> [r2 EXCEPT !.pc = "attach"]

\* _, err = d.iaas.GetMachine(ctx, req.NodeId)
PublishGetMachine(c) ==
    /\ call[c].kind = "publish" /\ call[c].pc = "getMachine"
    /\ \E resp \in GetMachineResponses(call[c].node) :
         LET r0  == call[c]
             err == ClientErr(r0.cancelled, resp)
             r   == Mark([r0 EXCEPT !.machErr = err, !.nGetMachine = @ + 1], err)
         IN  call' = [call EXCEPT ![c] =
                 IF err = "nil" THEN PublishCheckAttachment(r, r.node)
                 ELSE IF IsErrNotFound(err) THEN [r EXCEPT !.pc = "listMachines"]
                 ELSE Return(r, "Unknown")]
    /\ UNCHANGED <<processVars, kubeConfig, volStatus, volAttach, workload,
                   otherVars>>

\* machines, err := d.iaas.ListMachines(ctx, &iaas.ListMachinesRequest{})
PublishListMachines(c) ==
    /\ call[c].kind = "publish" /\ call[c].pc = "listMachines"
    /\ \E resp \in FoundResponses :
         LET r0  == call[c]
             err == ClientErr(r0.cancelled, resp)
             r   == Mark([r0 EXCEPT !.nList = @ + 1], err)
             i   == FirstMatch(Machines, r.node, 1)
         IN  call' = [call EXCEPT ![c] =
                 IF err # "nil" THEN Return(r, "Unknown")
                 ELSE IF i = 0 THEN Return(r, "NotFound")
                 ELSE PublishCheckAttachment(r, Machines[i].Identity)]
    /\ UNCHANGED <<processVars, kubeConfig, volStatus, volAttach, workload,
                   otherVars>>

\* the remote service accepts an attach: the attachment exists from now on
\* and the volume converges to "attached" later
RemoteAttach(v, m) ==
    IF AttachedTo(v, m)
    THEN UNCHANGED <<volStatus, volAttach>>
    ELSE /\ volAttach' = [volAttach EXCEPT ![v] = <<m>>]
         /\ volStatus' = [volStatus EXCEPT ![v] = "attaching"]

\* the attach call with its error dropped: the handler goes on to poll
\* whatever the remote service answered
PublishAttachErrorDropped(c) ==
    /\ call[c].kind = "publish" /\ call[c].pc = "attach"
    /\ \E resp \in AttachResponses(call[c].vol, call[c].target) :
         /\ call' = [call EXCEPT ![c] = [@ EXCEPT !.nAttach = @ + 1, !.pc = "poll"]]
         /\ IF Check(resp) = "nil"
            THEN RemoteAttach(call[c].vol, call[c].target)
            ELSE UNCHANGED <<volStatus, volAttach>>
    /\ UNCHANGED <<processVars, kubeConfig, workload, otherVars>>

\* _, err = d.iaas.AttachVolume(ctx, req.VolumeId, AttachVolumeRequest{..})
PublishAttach(c) ==
    /\ call[c].kind = "publish" /\ call[c].pc = "attach"
    /\ LET r0 == call[c] IN
       IF r0.cancelled
       THEN /\ call' = [call EXCEPT ![c] = Return(Mark(r0, "ErrTransport"), "Unknown")]
            /\ UNCHANGED <<volStatus, volAttach>>
       ELSE \E resp \in AttachResponses(r0.vol, r0.target) :
              LET r == [r0 EXCEPT !.nAttach = @ + 1] IN
              IF Check(resp) # "nil"
              THEN /\ call' = [call EXCEPT ![c] = Return(Mark(r, Check(resp)), "Unknown")]
                   /\ UNCHANGED <<volStatus, volAttach>>
              ELSE /\ call' = [call EXCEPT ![c] = [r EXCEPT !.pc = "poll"]]
                   /\ RemoteAttach(r.vol, r.target)
    /\ UNCHANGED <<processVars, kubeConfig, workload, otherVars>>

\* status of a volume as the remote service holds it
StatusOf(v) == IF v \in ExistingVolumes THEN volStatus[v] ELSE ""

\* one turn of wait.PollUntilContextTimeout(ctx, 10s, 5min, immediate=true,
\* cond) where cond reads the volume and compares its status with `want`.
\* elapsed is the time of this turn; the first turn runs the condition at
\* once, every later turn first looks at the context (cancelled, or past the
\* deadline); at the deadline itself either the timer or the deadline wins.
\* The next turn comes with the next tick after the status query answered.
Max(a, b) == IF a >= b THEN a ELSE b

\* the poll with a condition that does not compare the status: any answer of
\* the remote service ends it
PollTurnAnyStatus(r, want, resp, status, deadlineFirst, latency) ==
    IF r.polls > 0 /\ ( \/ r.cancelled
                        \/ r.elapsed > PollTimeout
                        \/ (r.elapsed = PollTimeout /\ deadlineFirst) )
    THEN Return(r, "Unknown")
    ELSE LET err == ClientErr(r.cancelled, resp)
         IN  IF err # "nil" THEN Return([r EXCEPT !.polls = @ + 1, !.faulted = TRUE], "Unknown")
             ELSE Return([r EXCEPT !.polls = @ + 1], "OK")

\* the poll that looks at the context only on entry: a later turn runs the
\* condition although the caller has cancelled
PollTurnEntryCheckOnly(r, want, resp, status, deadlineFirst, latency) ==
    IF r.polls > 0 /\ ( \/ r.elapsed > PollTimeout
                        \/ (r.elapsed = PollTimeout /\ deadlineFirst) )
    THEN Return(r, "Unknown")
    ELSE LET err == ClientErr(r.cancelled, resp)
             r1  == [r EXCEPT !.polls = @ + 1, !.faulted = @ \/ (err # "nil")]
         IN  IF err # "nil" THEN Return(r1, "Unknown")
             ELSE IF EqualFold(status, want)
                  THEN Return(r1, "OK")
                  ELSE [r1 EXCEPT !.elapsed = @ + Max(PollInterval, latency)]

PollTurn(r, want, resp, status, deadlineFirst, latency) ==
    IF r.polls > 0 /\ ( \/ r.cancelled
                        \/ r.elapsed > PollTimeout
                        \/ (r.elapsed = PollTimeout /\ deadlineFirst) )
    THEN Return(r, "Unknown")
    ELSE LET err == ClientErr(r.cancelled, resp)
             r1  == Mark([r EXCEPT !.polls = @ + 1], err)
         IN  IF err # "nil" THEN Return(r1, "Unknown")
             ELSE IF EqualFold(status, want)
                  THEN Return(r1, "OK")
                  ELSE [r1 EXCEPT !.elapsed = @ + Max(PollInterval, latency)]

\* wait.PollUntilContextTimeout(..) until the status is "attached"
PublishPoll(c) ==
    /\ call[c].kind = "publish" /\ call[c].pc = "poll"
    /\ \E resp \in GetVolumeResponses(call[c].vol),
          status \in Renderings(StatusOf(call[c].vol)),
          deadlineFirst \in BOOLEAN, latency \in workload.latencies :
         call' = [call EXCEPT ![c] =
                     PollTurn(call[c], "attached", resp, status, deadlineFirst, latency)]
    /\ UNCHANGED <<processVars, kubeConfig, volStatus, volAttach, workload,
                   otherVars>>

\* ----------------------------------------------- ControllerUnpublishVolume
UnpublishValidate(vol) == IF vol = "" THEN "InvalidArgument" ELSE "OK"

\* a ControllerUnpublishVolume request arrives in a free slot
UnpublishStart(c) ==
    /\ CanStart(c)
    /\ \E vol \in workload.vols, node \in workload.nodes :
         LET r == [IdleCall EXCEPT !.kind = "unpublish", !.vol = vol,
                                   !.node = node, !.ref = node]
             v == UnpublishValidate(vol)
         IN  call' = [call EXCEPT ![c] =
                 IF v # "OK" THEN Return(r, v) ELSE [r EXCEPT !.pc = "getVolume"]]
    /\ UNCHANGED <<processVars, kubeConfig, volStatus, volAttach, workload,
                   otherVars>>

\* _, err := d.iaas.GetVolume(ctx, req.VolumeId)
UnpublishGetVolume(c) ==
    /\ call[c].kind = "unpublish" /\ call[c].pc = "getVolume"
    /\ \E resp \in GetVolumeResponses(call[c].vol) :
         LET err == ClientErr(call[c].cancelled, resp)
             r   == Mark(call[c], err)
         IN  call' = [call EXCEPT ![c] =
                 IF err # "nil"
                 THEN IF IsErrNotFound(err)
                      THEN Return([r EXCEPT !.volErr = err], "OK")
                      ELSE Return([r EXCEPT !.volErr = err], "Unknown")
                 ELSE [r EXCEPT !.pc = IF kubeConfig THEN "kube" ELSE "getMachine"]]
    /\ UNCHANGED <<processVars, kubeConfig, volStatus, volAttach, workload,
                   otherVars>>

\* if d.kubeConfig != "" { providerID, err := d.getNodeMachineIdentity(..) }
UnpublishKube(c) ==
    /\ call[c].kind = "unpublish" /\ call[c].pc = "kube"
    /\ \E lookupFails \in BOOLEAN :
         LET r   == call[c]
             res == NodeMachineIdentity(r.node, lookupFails \/ r.cancelled)
         IN  call' = [call EXCEPT ![c] =
                 IF res.err # "nil" THEN Return([r EXCEPT !.faulted = TRUE], res.err)
                 ELSE [r EXCEPT !.node = res.id, !.pc = "getMachine"]]
    /\ UNCHANGED <<processVars, kubeConfig, volStatus, volAttach, workload,
                   otherVars>>

\* _, err = d.iaas.GetMachine(ctx, attachToIdentity)
UnpublishGetMachine(c) ==
    /\ call[c].kind = "unpublish" /\ call[c].pc = "getMachine"
    /\ \E resp \in GetMachineResponses(call[c].node) :
         LET r0  == call[c]
             err == ClientErr(r0.cancelled, resp)
             r   == Mark([r0 EXCEPT !.machErr = err, !.nGetMachine = @ + 1], err)
         IN  call' = [call EXCEPT ![c] =
                 IF err = "nil" THEN [r EXCEPT !.target = r.node, !.pc = "detach"]
                 ELSE IF IsErrNotFound(err) THEN [r EXCEPT !.pc = "listMachines"]
                 ELSE Return(r, "Unknown")]
    /\ UNCHANGED <<processVars, kubeConfig, volStatus, volAttach, workload,
                   otherVars>>

\* the machines ListMachines returns under the region and VPC filters
InScope(m) == m.inScope
ScopedMachines == SelectSeq(Machines, InScope)

\* machines, err := d.iaas.ListMachines(ctx, {Filters: region, vpc})
UnpublishListMachines(c) ==
    /\ call[c].kind = "unpublish" /\ call[c].pc = "listMachines"
    /\ \E resp \in FoundResponses :
         LET r0  == call[c]
             err == ClientErr(r0.cancelled, resp)
             r   == Mark([r0 EXCEPT !.nList = @ + 1], err)
             i   == FirstMatch(ScopedMachines, r.node, 1)
         IN  call' = [call EXCEPT ![c] =
                 IF err # "nil" THEN Return(r, "Unknown")
                 ELSE IF i = 0 THEN Return(r, "OK")
                 ELSE [r EXCEPT !.target = ScopedMachines[i].Identity,
                                !.pc = "detach"]]
    /\ UNCHANGED <<processVars, kubeConfig, volStatus, volAttach, workload,
                   otherVars>>

\* the remote service accepts a detach: an attachment to that machine starts
\* detaching; a volume with no such attachment is left as it is
RemoteDetach(v, m) ==
    IF AttachedTo(v, m)
    THEN /\ volStatus' = [volStatus EXCEPT ![v] = "detaching"]
         /\ UNCHANGED volAttach
    ELSE UNCHANGED <<volStatus, volAttach>>

\* err = d.iaas.DetachVolume(ctx, req.VolumeId, DetachVolumeRequest{..})
UnpublishDetach(c) ==
    /\ call[c].kind = "unpublish" /\ call[c].pc = "detach"
    /\ LET r0 == call[c] IN
       IF r0.cancelled
       THEN /\ call' = [call EXCEPT ![c] = Return(Mark(r0, "ErrTransport"), "Unknown")]
            /\ UNCHANGED <<volStatus, volAttach>>
       ELSE \E resp \in DetachResponses(r0.vol, r0.target) :
              LET r == [r0 EXCEPT !.nDetach = @ + 1,
                                  !.attachedAtDetach = AttachedTo(r0.vol, r0.target)] IN
              IF Check(resp) # "nil"
              THEN /\ call' = [call EXCEPT ![c] = Return(Mark(r, Check(resp)), "Unknown")]
                   /\ UNCHANGED <<volStatus, volAttach>>
              ELSE /\ call' = [call EXCEPT ![c] = [r EXCEPT !.pc = "poll"]]
                   /\ RemoteDetach(r.vol, r.target)
    /\ UNCHANGED <<processVars, kubeConfig, workload, otherVars>>

\* wait.PollUntilContextTimeout(..) until the status is "available"
UnpublishPoll(c) ==
    /\ call[c].kind = "unpublish" /\ call[c].pc = "poll"
    /\ \E resp \in GetVolumeResponses(call[c].vol),
          status \in Renderings(StatusOf(call[c].vol)),
          deadlineFirst \in BOOLEAN, latency \in workload.latencies :
         call' = [call EXCEPT ![c] =
                     PollTurn(call[c], "available", resp, status, deadlineFirst, latency)]
    /\ UNCHANGED <<processVars, kubeConfig, volStatus, volAttach, workload,
                   otherVars>>

\* ------------------------------------------------------------ environment
\* the caller's context is cancelled while the handler runs
Cancel(c) ==
    /\ call[c].pc \notin {"idle", "done"}
    /\ ~call[c].cancelled
    /\ call' = [call EXCEPT ![c].cancelled = TRUE]
    /\ UNCHANGED <<processVars, kubeConfig, volStatus, volAttach, workload,
                   otherVars>>

\* the response has been delivered; the slot takes the next request
Reset(c) ==
    /\ call[c].pc = "done"
    /\ call' = [call EXCEPT ![c] = IdleCall]
    /\ UNCHANGED <<processVars, kubeConfig, volStatus, volAttach, workload,
                   otherVars>>

\* the remote service finishes an attach or a detach
Converge(v) ==
    /\ volStatus[v] \in {"attaching", "detaching"}
    /\ IF volStatus[v] = "attaching"
       THEN /\ volStatus' = [volStatus EXCEPT ![v] = "attached"]
            /\ UNCHANGED volAttach
       ELSE /\ volStatus' = [volStatus EXCEPT ![v] = "available"]
            /\ volAttach' = [volAttach EXCEPT ![v] = <<>>]
    /\ UNCHANGED <<processVars, kubeConfig, call, workload, otherVars>>

\* --------------------------------------------------------- specifications
Handler(c) ==
    \/ PublishStart(c)
    \/ PublishGetVolume(c)
    \/ PublishKube(c)
    \/ PublishGetMachine(c)
    \/ PublishListMachines(c)
    \/ PublishAttach(c)
    \/ PublishPoll(c)
    \/ UnpublishStart(c)
    \/ UnpublishGetVolume(c)
    \/ UnpublishKube(c)
    \/ UnpublishGetMachine(c)
    \/ UnpublishListMachines(c)
    \/ UnpublishDetach(c)
    \/ UnpublishPoll(c)

Next ==
    \/ \E c \in Slots : Handler(c)
    \/ \E c \in Slots : Cancel(c)
    \/ \E c \in Slots : Reset(c)
    \/ \E v \in ExistingVolumes : Converge(v)

\* one handler at a time, any number of requests one after another
Spec == Init /\ [][Next]_vars

\* up to MaxCalls requests for one volume arrive in a burst and run at once,
\* against a slow remote service
InitConc ==
    /\ kubeConfig \in BOOLEAN
    /\ InitRemote
    /\ ProcessAtRest
    /\ workload = [slots |-> Slots, vols |-> {"v1"}, nodes |-> {"node-a", "m3"},
                   caps |-> {TRUE}, readonly |-> {FALSE},
                   latencies |-> {SlowLatency}, faults |-> FALSE,
                   burst |-> TRUE, casing |-> "any"]
    /\ LifecycleAtRest
    /\ NodeAtRest

NextConc ==
    \/ \E c \in Slots : Handler(c)
    \/ \E v \in ExistingVolumes : Converge(v)

SpecConc == InitConc /\ [][NextConc]_vars

\* ======================================== volume and snapshot lifecycle
\* client.IsNotFound
IsNotFound(err) == err \in NotFoundErrors

\* the remote service resolves a reference to a volume by identity or by
\* name: the index of the volume in the organisation's list, 0 when absent
RECURSIVE ResolveVolume(_, _)
ResolveVolume(ref, i) ==
    IF i > Len(volumes) THEN 0
    ELSE IF volumes[i].Identity = ref \/ volumes[i].Name = ref THEN i
    ELSE ResolveVolume(ref, i + 1)

\* responses to a call that names one resource
LookupResponses(exists) ==
    IF exists THEN FoundResponses
    ELSE AbsentResponses \cup (IF workload.faults THEN ErrorResponses ELSE {})

\* one more remote call made by the handler
Called(r, what, err) == [r EXCEPT !.remote = Append(@, what), !.err = err]

\* ------------------------------------------------------------ CreateVolume
\* the request arrives and is validated
CreateVolumeStart ==
    /\ rpc.pc = "idle"
    /\ \E name \in VolumeNames \cup {""}, caps \in CapabilitySets,
          capRange \in CreateRanges, requisite \in TopologyRequirements,
          volumeIdentity \in VolumeIdentityParams :
         LET r    == [IdleRpc EXCEPT !.kind = "createVolume", !.name = name]
             size == getStorageSizeFromCapacityRange(capRange)
         IN  rpc' =
               IF name = "" THEN Finish(r, "InvalidArgument", "name")
               ELSE IF Len(caps) = 0
                    THEN Finish(r, "InvalidArgument", "capabilities")
               ELSE IF validateCapabilities(caps) # {}
                    THEN Finish(r, "InvalidArgument", "capabilities")
               ELSE IF size.err THEN Finish(r, "OutOfRange", "capacity")
               ELSE IF ForeignTopology(requisite, 1) # 0
                    THEN Finish(r, "ResourceExhausted", "topology")
               ELSE [r EXCEPT !.pc = "probe", !.size = size.size,
                              !.ref = IF volumeIdentity = "" THEN name
                                      ELSE volumeIdentity]
    /\ UNCHANGED <<config, volumes, snapshots, attachVars, processVars,
                 nodeVars>>

\* the probe without the size test: any volume found is returned
CreateVolumeProbeNoSizeTest ==
    /\ rpc.kind = "createVolume" /\ rpc.pc = "probe"
    /\ LET i == ResolveVolume(rpc.ref, 1)
       IN  \E resp \in LookupResponses(i # 0) :
             LET err    == Check(resp)
                 r      == Called(rpc, "GetVolume", err)
                 volume == IF err = "nil" THEN <<volumes[i]>> ELSE <<>>
             IN  rpc' =
                   IF err # "nil" /\ ~IsNotFound(err)
                   THEN Finish(r, "Internal", "remote")
                   ELSE IF volume # <<>>
                   THEN Finish([r EXCEPT !.found = volume,
                                         !.result = volume[1].Identity],
                               "OK", "exists")
                   ELSE [r EXCEPT !.pc = "types"]
    /\ UNCHANGED <<config, volumes, snapshots, attachVars, processVars,
                 nodeVars>>

\* volume, err := d.iaas.GetVolume(ctx, volumeIdentity), and the size test
CreateVolumeProbe ==
    /\ rpc.kind = "createVolume" /\ rpc.pc = "probe"
    /\ LET i == ResolveVolume(rpc.ref, 1)
       IN  \E resp \in LookupResponses(i # 0) :
             LET err    == Check(resp)
                 r      == Called(rpc, "GetVolume", err)
                 volume == IF err = "nil" THEN <<volumes[i]>> ELSE <<>>
             IN  rpc' =
                   IF err # "nil" /\ ~IsNotFound(err)
                   THEN Finish(r, "Internal", "remote")
                   ELSE IF volume # <<>>
                   THEN IF volume[1].Size * giB # r.size
                        THEN Finish([r EXCEPT !.found = volume],
                                    "AlreadyExists", "size")
                        ELSE Finish([r EXCEPT !.found = volume,
                                              !.result = volume[1].Identity],
                                    "OK", "exists")
                   ELSE [r EXCEPT !.pc = "types"]
    /\ UNCHANGED <<config, volumes, snapshots, attachVars, processVars,
                 nodeVars>>

\* getVolumeTypeByFilter: the identity of the first type the filter accepts;
\* the filters of CreateVolume test the identity, or the name without case
RECURSIVE getVolumeTypeByFilter(_, _, _, _)
getVolumeTypeByFilter(volumeTypes, kind, param, i) ==
    IF i > Len(volumeTypes) THEN [id |-> "", err |-> TRUE]
    ELSE IF (IF kind = "identity" THEN volumeTypes[i].Identity = param
             ELSE EqualFold(volumeTypes[i].Name, param))
         THEN [id |-> volumeTypes[i].Identity, err |-> FALSE]
    ELSE getVolumeTypeByFilter(volumeTypes, kind, param, i + 1)

\* getVolumeTypeByFilters: the filters in order, the first that hits decides
RECURSIVE getVolumeTypeByFilters(_, _, _, _)
getVolumeTypeByFilters(volumeTypes, kinds, param, k) ==
    IF k > Len(kinds) THEN [id |-> "", err |-> TRUE]
    ELSE LET hit == getVolumeTypeByFilter(volumeTypes, kinds[k], param, 1)
         IN  IF hit.err
             THEN getVolumeTypeByFilters(volumeTypes, kinds, param, k + 1)
             ELSE hit

\* the filters CreateVolume passes, in its order
TypeStrategies == <<"identity", "name">>

\* custom entries are added under the keys the driver has not set itself
MergeCustom(own, custom) ==
    [k \in DOMAIN own \cup DOMAIN custom |->
        IF k \in DOMAIN own THEN own[k] ELSE custom[k]]

\* the labels and annotations of a volume create
VolumeLabels ==
    LET own    == [k \in {csiDriverLabel, csiDriverNameLabel} |->
                      IF k = csiDriverLabel THEN "true" ELSE "csi.thalassa"]
        merged == MergeCustom(own, config.CustomLabels)
    IN  IF config.clusterIdentity # ""
        THEN [k \in DOMAIN merged \cup {clusterIdentityLabel} |->
                 IF k = clusterIdentityLabel THEN config.clusterIdentity
                 ELSE merged[k]]
        ELSE merged

VolumeAnnotations ==
    MergeCustom(Map({descriptionAnnotation}, "Provisioned by Thalassa CSI driver"),
                config.CustomAnnotations)

\* d.iaas.ListVolumeTypes, the type resolution, the create request and the
\* test of the content source
CreateVolumeTypes ==
    /\ rpc.kind = "createVolume" /\ rpc.pc = "types"
    /\ \E param \in VolumeTypeParams, source \in ContentSources,
          resp \in FoundResponses, volumeTypes \in VolumeTypeLists :
         LET err == Check(resp)
             volumeTypeParam == IF param = "" THEN "block" ELSE param
             r   == [Called(rpc, "ListVolumeTypes", err)
                        EXCEPT !.typeParam = volumeTypeParam,
                               !.types = IF err = "nil" THEN volumeTypes
                                         ELSE <<>>]
             hit == getVolumeTypeByFilters(volumeTypes, TypeStrategies,
                                           volumeTypeParam, 1)
             volumeReq == [Name |-> r.name, Size |-> r.size \div giB,
                           VolumeTypeIdentity |-> hit.id,
                           Labels |-> VolumeLabels,
                           Annotations |-> VolumeAnnotations,
                           RestoreFromSnapshotId |-> NoSource]
             q   == [r EXCEPT !.typeId = hit.id, !.volumeReq = <<volumeReq>>,
                              !.source = source]
         IN  rpc' =
               IF err # "nil" THEN Finish(r, "Internal", "remote")
               ELSE IF hit.err THEN Finish(r, "Internal", "volumeType")
               ELSE IF hit.id = ""
                    THEN Finish(r, "InvalidArgument", "volumeType")
               ELSE IF source = NoSource THEN [q EXCEPT !.pc = "create"]
               ELSE IF source = ""
                    THEN Finish(q, "InvalidArgument", "snapshotId")
               ELSE [q EXCEPT !.pc = "getSnapshot"]
    /\ UNCHANGED <<config, volumes, snapshots, attachVars, processVars,
                 nodeVars>>

\* the snapshot lookup with its error dropped
CreateVolumeGetSnapshotUnchecked ==
    /\ rpc.kind = "createVolume" /\ rpc.pc = "getSnapshot"
    /\ \E resp \in LookupResponses(rpc.source \in SnapshotIdentities) :
         LET err == Check(resp)
             r   == Called(rpc, "GetSnapshot", err)
         IN  rpc' = [r EXCEPT !.pc = "create",
                       !.volumeReq[1].RestoreFromSnapshotId = r.source]
    /\ UNCHANGED <<config, volumes, snapshots, attachVars, processVars,
                 nodeVars>>

\* _, err = d.iaas.GetSnapshot(ctx, snapshotID)
CreateVolumeGetSnapshot ==
    /\ rpc.kind = "createVolume" /\ rpc.pc = "getSnapshot"
    /\ \E resp \in LookupResponses(rpc.source \in SnapshotIdentities) :
         LET err == Check(resp)
             r   == Called(rpc, "GetSnapshot", err)
         IN  rpc' =
               IF err # "nil"
               THEN IF IsNotFound(err) THEN Finish(r, "NotFound", "snapshot")
                    ELSE Finish(r, "Internal", "remote")
               ELSE [r EXCEPT !.pc = "create",
                       !.volumeReq[1].RestoreFromSnapshotId = r.source]
    /\ UNCHANGED <<config, volumes, snapshots, attachVars, processVars,
                 nodeVars>>

\* POST /v1/volumes: the remote service refuses a create past the quota and
\* a restore from a snapshot that is gone
CreateVolumeResponses(req) ==
    IF req.RestoreFromSnapshotId # NoSource
       /\ req.RestoreFromSnapshotId \notin SnapshotIdentities
    THEN AbsentResponses
    ELSE IF Len(volumes) >= MaxVolumes THEN ErrorResponses
    ELSE FoundResponses

\* vol, err := d.iaas.CreateVolume(ctx, volumeReq)
CreateVolumeCreate ==
    /\ rpc.kind = "createVolume" /\ rpc.pc = "create"
    /\ \E resp \in CreateVolumeResponses(rpc.volumeReq[1]) :
         LET err == Check(resp)
             r   == Called(rpc, "CreateVolume", err)
             req == rpc.volumeReq[1]
             new == CHOOSE id \in VolumeIdentities :
                        \A i \in 1..Len(volumes) : volumes[i].Identity # id
             vol == [Identity |-> new, Name |-> req.Name,
                     Size |-> req.Size, Requested |-> rpc.size]
         IN  IF err # "nil"
             THEN /\ rpc' = IF req.RestoreFromSnapshotId # NoSource
                               /\ IsNotFound(err)
                            THEN Finish(r, "NotFound", "snapshot")
                            ELSE Finish(r, "Internal", "remote")
                  /\ UNCHANGED volumes
             ELSE /\ rpc' = Finish([r EXCEPT !.result = vol.Identity],
                                   "OK", "created")
                  /\ volumes' = Append(volumes, vol)
    /\ UNCHANGED <<config, snapshots, attachVars, processVars, nodeVars>>

\* ------------------------------------------------------------ DeleteVolume
\* req.VolumeId of a delete
DeleteVolumeIds == {"", "vol-0", "vol-1", "ghost"}

\* the handler without its not-found branch: every error is returned
DeleteVolumeNotFoundIsError ==
    /\ rpc.pc = "idle"
    /\ \E id \in DeleteVolumeIds :
         LET r == [IdleRpc EXCEPT !.kind = "deleteVolume", !.ref = id]
             i == ResolveVolume(id, 1)
         IN  IF id = ""
             THEN /\ rpc' = Finish(r, "InvalidArgument", "volumeId")
                  /\ UNCHANGED volumes
             ELSE \E resp \in LookupResponses(i # 0) :
                    LET err == Check(resp)
                        q   == Called(r, "DeleteVolume", err)
                    IN  IF err = "nil"
                        THEN /\ rpc' = Finish(q, "OK", "deleted")
                             /\ volumes' = SubSeq(volumes, 1, i - 1)
                                        \o SubSeq(volumes, i + 1, Len(volumes))
                        ELSE /\ rpc' = Finish(q, "Unknown", "remote")
                             /\ UNCHANGED volumes
    /\ UNCHANGED <<config, snapshots, attachVars, processVars, nodeVars>>

\* the whole handler: validation, then DELETE /v1/volumes/{identity}
DeleteVolume ==
    /\ rpc.pc = "idle"
    /\ \E id \in DeleteVolumeIds :
         LET r == [IdleRpc EXCEPT !.kind = "deleteVolume", !.ref = id]
             i == ResolveVolume(id, 1)
         IN  IF id = ""
             THEN /\ rpc' = Finish(r, "InvalidArgument", "volumeId")
                  /\ UNCHANGED volumes
             ELSE \E resp \in LookupResponses(i # 0) :
                    LET err == Check(resp)
                        q   == Called(r, "DeleteVolume", err)
                    IN  IF err = "nil"
                        THEN /\ rpc' = Finish(q, "OK", "deleted")
                             /\ volumes' = SubSeq(volumes, 1, i - 1)
                                        \o SubSeq(volumes, i + 1, Len(volumes))
                        ELSE /\ rpc' = IF IsNotFound(err)
                                       THEN Finish(q, "OK", "absent")
                                       ELSE Finish(q, "Unknown", "remote")
                             /\ UNCHANGED volumes
    /\ UNCHANGED <<config, snapshots, attachVars, processVars, nodeVars>>

\* ---------------------------------------------------------- DeleteSnapshot
\* the whole handler: validation, then DELETE /v1/snapshots/{identity}
DeleteSnapshot ==
    /\ rpc.pc = "idle"
    /\ \E id \in SnapshotIds :
         LET r == [IdleRpc EXCEPT !.kind = "deleteSnapshot", !.ref = id]
         IN  IF id = ""
             THEN /\ rpc' = Finish(r, "InvalidArgument", "snapshotId")
                  /\ UNCHANGED snapshots
             ELSE \E resp \in LookupResponses(id \in SnapshotIdentities) :
                    LET err == Check(resp)
                        q   == Called(r, "DeleteSnapshot", err)
                    IN  IF err = "nil"
                        THEN /\ rpc' = Finish(q, "OK", "deleted")
                             /\ snapshots' = {s \in snapshots : s.Identity # id}
                        ELSE /\ rpc' = IF IsNotFound(err)
                                       THEN Finish(q, "OK", "absent")
                                       ELSE Finish(q, "Internal", "remote")
                             /\ UNCHANGED snapshots
    /\ UNCHANGED <<config, volumes, attachVars, processVars, nodeVars>>

\* ------------------------------------------------------------- ListVolumes
\* req.MaxEntries
MaxEntriesValues == 0..MaxVolumes

\* the whole handler: the effective page size, GET /v1/volumes with the
\* region filter, one entry for every volume of the answer
ListVolumes ==
    /\ rpc.pc = "idle"
    /\ \E reqMaxEntries \in MaxEntriesValues, resp \in FoundResponses :
         LET maxEntries ==
                 IF reqMaxEntries = 0 /\ config.defaultVolumesPageSize > 0
                 THEN config.defaultVolumesPageSize ELSE reqMaxEntries
             err == Check(resp)
             r   == [Called(IdleRpc, "ListVolumes", err)
                        EXCEPT !.kind = "listVolumes",
                               !.maxEntries = maxEntries]
         IN  rpc' = IF err # "nil" THEN Finish(r, "Unknown", "remote")
                    ELSE Finish([r EXCEPT !.entries = Len(volumes)],
                                "OK", "listed")
    /\ UNCHANGED <<config, volumes, snapshots, attachVars, processVars,
                 nodeVars>>

\* the response has been delivered; the next request can come
Deliver ==
    /\ rpc.pc = "done"
    /\ rpc' = IdleRpc
    /\ UNCHANGED <<config, volumes, snapshots, attachVars, processVars,
                 nodeVars>>

\* the volume and snapshot handlers, one request after another
InitLifecycle ==
    /\ config \in DriverConfigs
    /\ volumes \in {<<>>, <<PreExisting>>}
    /\ snapshots = {ExistingSnapshot}
    /\ rpc = IdleRpc
    /\ kubeConfig = FALSE
    /\ InitRemote
    /\ ProcessAtRest
    /\ workload = [slots |-> {}, vols |-> {}, nodes |-> {}, caps |-> {},
                   readonly |-> {}, latencies |-> {}, faults |-> TRUE,
                   burst |-> FALSE, casing |-> "any"]
    /\ NodeAtRest

NextLifecycle ==
    \/ CreateVolumeStart
    \/ CreateVolumeProbe
    \/ CreateVolumeTypes
    \/ CreateVolumeGetSnapshot
    \/ CreateVolumeCreate
    \/ DeleteVolume
    \/ DeleteSnapshot
    \/ ListVolumes
    \/ Deliver

SpecLifecycle == InitLifecycle /\ [][NextLifecycle]_vars

\* ---------------------------------------------------------- CreateSnapshot
\* the request arrives and is validated
CreateSnapshotStart ==
    /\ rpc.pc = "idle"
    /\ \E name \in {"", "snap-a", "snap-b"},
          sourceVolumeId \in {"", "pvc-0", "pvc-1", "vol-0"} :
         LET r == [IdleRpc EXCEPT !.kind = "createSnapshot", !.name = name,
                                  !.ref = sourceVolumeId]
         IN rpc' = IF name = "" THEN Finish(r, "InvalidArgument", "name")
                   ELSE IF sourceVolumeId = ""
                   THEN Finish(r, "InvalidArgument", "sourceVolumeId")
                   ELSE [r EXCEPT !.pc = "listSnapshots"]
    /\ UNCHANGED <<config, volumes, snapshots, attachVars, processVars,
                 nodeVars>>

\* the listing taken as empty whatever the remote service holds
CreateSnapshotListUnmatched ==
    /\ rpc.kind = "createSnapshot" /\ rpc.pc = "listSnapshots"
    /\ \E resp \in FoundResponses :
         LET err == ClientErr(rpc.cancelled, resp)
             r   == Called(rpc, "ListSnapshots", err)
         IN rpc' = IF err # "nil" THEN Finish(r, "Internal", "remote")
                   ELSE [r EXCEPT !.pc = "listVolumes"]
    /\ UNCHANGED <<config, volumes, snapshots, attachVars, processVars,
                 nodeVars>>

\* getOrCreateSnapshot: ListSnapshots with the name filter, then the loop
\* that returns the snapshot whose Name is the requested name
CreateSnapshotList ==
    /\ rpc.kind = "createSnapshot" /\ rpc.pc = "listSnapshots"
    /\ \E resp \in FoundResponses :
         LET err    == ClientErr(rpc.cancelled, resp)
             r      == Called(rpc, "ListSnapshots", err)
             listed == {s \in snapshots : s.Name = rpc.name}
             hits   == {s \in listed : s.Name = rpc.name}
         IN IF err # "nil" THEN rpc' = Finish(r, "Internal", "remote")
            ELSE IF hits # {}
            THEN \E s \in hits :
                   rpc' = [r EXCEPT !.pc = "wait", !.result = s.Identity]
            ELSE rpc' = [r EXCEPT !.pc = "listVolumes"]
    /\ UNCHANGED <<config, volumes, snapshots, attachVars, processVars,
                 nodeVars>>

\* getOrCreateSnapshot: ListVolumes with the source volume id as the name
\* filter, and the count of the answer; CreateSnapshot returns every error
\* of getOrCreateSnapshot as Internal
CreateSnapshotListVolumes ==
    /\ rpc.kind = "createSnapshot" /\ rpc.pc = "listVolumes"
    /\ \E resp \in FoundResponses :
         LET err    == ClientErr(rpc.cancelled, resp)
             r      == Called(rpc, "ListVolumes", err)
             listed == SelectSeq(volumes, LAMBDA v : v.Name = rpc.ref)
         IN rpc' =
              IF err # "nil" THEN Finish(r, "Internal", "remote")
              ELSE IF Len(listed) = 0
              THEN Finish(r, "Internal", "NotFound: volume with name")
              ELSE IF Len(listed) > 1
              THEN Finish(r, "Internal", "Internal: multiple volumes")
              ELSE [r EXCEPT !.pc = "createSnapshot",
                             !.found = <<listed[1]>>]
    /\ UNCHANGED <<config, volumes, snapshots, attachVars, processVars,
                 nodeVars>>

\* getOrCreateSnapshot: POST /v1/snapshots for the resolved volume
CreateSnapshotCreate ==
    /\ rpc.kind = "createSnapshot" /\ rpc.pc = "createSnapshot"
    /\ \E resp \in (IF Cardinality(snapshots) >= MaxSnapshots
                    THEN ErrorResponses ELSE FoundResponses),
          status \in {"creating", "available"} :
         LET err == ClientErr(rpc.cancelled, resp)
             r   == Called(rpc, "CreateSnapshot", err)
             new == CHOOSE id \in {"snap-2", "snap-3", "snap-4", "snap-5"} :
                        id \notin SnapshotIdentities
         IN IF err # "nil"
            THEN /\ rpc' = Finish(r, "Internal", "remote")
                 /\ UNCHANGED snapshots
            ELSE /\ rpc' = [r EXCEPT !.pc = "wait", !.result = new]
                 /\ snapshots' = snapshots \cup
                      {[Identity |-> new, Name |-> rpc.name,
                        Status |-> status,
                        VolumeIdentity |-> rpc.found[1].Identity]}
    /\ UNCHANGED <<config, volumes, attachVars, processVars, nodeVars>>

\* the status strings the remote service answers with: a service renders
\* its statuses in one letter case throughout (workload.casing "lower" or
\* "title"), or the case is left open query by query ("any")
RemoteRenderings(status) ==
    CASE workload.casing = "lower" -> {status}
      [] workload.casing = "title" -> Renderings(status) \ {status}
      [] OTHER                     -> Renderings(status)

\* the wait that takes the snapshot as ready at its first query
CreateSnapshotWaitUnchecked ==
    /\ rpc.kind = "createSnapshot" /\ rpc.pc = "wait"
    /\ \E s \in {t \in snapshots : t.Identity = rpc.result},
          resp \in FoundResponses :
       \E status \in RemoteRenderings(s.Status) :
         LET err == ClientErr(rpc.cancelled, resp)
             r   == [rpc EXCEPT !.err = err,
                       !.remote = Append(@, "WaitUntilSnapshotIsAvailable")]
         IN rpc' = IF err # "nil" THEN Finish(r, "Internal", "wait")
                   ELSE [r EXCEPT !.observed = status, !.pc = "get"]
    /\ UNCHANGED <<config, volumes, snapshots, attachVars, processVars,
                 nodeVars>>

\* one turn of d.iaas.WaitUntilSnapshotIsAvailable: the context is looked
\* at, GetSnapshot is called, and the loop goes on until the status string
\* of the answer is SnapshotStatusAvailable, letter for letter
CreateSnapshotWait ==
    /\ rpc.kind = "createSnapshot" /\ rpc.pc = "wait"
    /\ \E s \in {t \in snapshots : t.Identity = rpc.result},
          resp \in FoundResponses :
       \E status \in RemoteRenderings(s.Status) :
         LET err == ClientErr(rpc.cancelled, resp)
             r   == [rpc EXCEPT !.err = err,
                       !.remote = IF rpc.observed = ""
                                  THEN Append(@, "WaitUntilSnapshotIsAvailable")
                                  ELSE @]
         IN rpc' = IF err # "nil" THEN Finish(r, "Internal", "wait")
                   ELSE IF status = SnapshotStatusAvailable
                   THEN [r EXCEPT !.observed = status, !.pc = "get"]
                   ELSE [r EXCEPT !.observed = status]
    /\ UNCHANGED <<config, volumes, snapshots, attachVars, processVars,
                 nodeVars>>

\* d.iaas.GetSnapshot after the wait, and mapToCSISnapshot
CreateSnapshotGet ==
    /\ rpc.kind = "createSnapshot" /\ rpc.pc = "get"
    /\ \E resp \in LookupResponses(rpc.result \in SnapshotIdentities) :
         LET err == ClientErr(rpc.cancelled, resp)
             r   == Called(rpc, "GetSnapshot", err)
         IN rpc' = IF err = "nil" THEN Finish(r, "OK", "snapshot")
                   ELSE IF IsNotFound(err)
                   THEN Finish(r, "NotFound", "snapshot")
                   ELSE Finish(r, "Internal", "remote")
    /\ UNCHANGED <<config, volumes, snapshots, attachVars, processVars,
                 nodeVars>>

\* the remote service finishes a snapshot, or fails to
SnapshotProgress ==
    /\ \E s \in snapshots, status \in {"available", "failed"} :
         /\ s.Status = "creating"
         /\ snapshots' = (snapshots \ {s}) \cup {[s EXCEPT !.Status = status]}
    /\ UNCHANGED <<config, volumes, rpc, attachVars, processVars, nodeVars>>

\* the orchestrator gives up on the call: the request context is cancelled
CancelRpc ==
    /\ rpc.kind = "createSnapshot"
    /\ rpc.pc \notin {"idle", "done"}
    /\ ~rpc.cancelled
    /\ rpc' = [rpc EXCEPT !.cancelled = TRUE]
    /\ UNCHANGED <<config, volumes, snapshots, attachVars, processVars,
                 nodeVars>>

\* the snapshot handler, one request after another; two volumes may carry
\* one name
InitSnapshot ==
    /\ config \in {d \in DriverConfigs : d.clusterIdentity = ""}
    /\ volumes \in {<<>>, <<PreExisting>>,
                    <<PreExisting, [PreExisting EXCEPT !.Identity = "vol-1"]>>}
    /\ snapshots \in {{}, {ExistingSnapshot}}
    /\ rpc = IdleRpc
    /\ kubeConfig = FALSE
    /\ InitRemote
    /\ ProcessAtRest
    /\ workload = [slots |-> {}, vols |-> {}, nodes |-> {}, caps |-> {},
                   readonly |-> {}, latencies |-> {}, faults |-> TRUE,
                   burst |-> FALSE, casing |-> "any"]
    /\ NodeAtRest

NextSnapshot ==
    \/ CreateSnapshotStart
    \/ CreateSnapshotList
    \/ CreateSnapshotListVolumes
    \/ CreateSnapshotCreate
    \/ CreateSnapshotWait
    \/ CreateSnapshotGet
    \/ SnapshotProgress
    \/ CancelRpc
    \/ Deliver

SpecSnapshot == InitSnapshot /\ [][NextSnapshot]_vars

\* the snapshot handler under the scheduling the code has: the gRPC server
\* runs the handler's goroutine on, so each step of the handler that can be
\* taken is taken, and the wait loop polls again after every
\* DefaultPollIntervalForWaiting. Nothing makes the remote service finish a
\* snapshot or the caller cancel. The remote service renders its statuses
\* in one letter case, and its reads fail or never do.
InitSnapshotFair ==
    /\ config \in {d \in DriverConfigs : d.clusterIdentity = ""}
    /\ volumes \in {<<>>, <<PreExisting>>}
    /\ snapshots \in {{}, {ExistingSnapshot}}
    /\ rpc = IdleRpc
    /\ kubeConfig = FALSE
    /\ InitRemote
    /\ ProcessAtRest
    /\ \E faults \in BOOLEAN, casing \in {"lower", "title"} :
         workload = [slots |-> {}, vols |-> {}, nodes |-> {}, caps |-> {},
                     readonly |-> {}, latencies |-> {}, faults |-> faults,
                     burst |-> FALSE, casing |-> casing]
    /\ NodeAtRest

SpecSnapshotFair ==
    /\ InitSnapshotFair
    /\ [][NextSnapshot]_vars
    /\ WF_vars(CreateSnapshotList)
    /\ WF_vars(CreateSnapshotListVolumes)
    /\ WF_vars(CreateSnapshotCreate)
    /\ WF_vars(CreateSnapshotWait)
    /\ WF_vars(CreateSnapshotGet)

\* ------------------------------------------- the capacity range resolved
\* The two handlers that resolve a capacity range, on a request whose range
\* is rpc.capRange; rpc.size is the byte count the resolver returned.

\* the resolver's error dropped: the handler goes on with the size it got
CreateVolumeSizeErrorIgnored ==
    /\ rpc.kind = "none" /\ rpc.pc = "idle"
    /\ LET r    == [rpc EXCEPT !.kind = "createVolume"]
           size == getStorageSizeFromCapacityRange(rpc.capRange)
       IN  rpc' = [r EXCEPT !.pc = "probe", !.size = size.size]
    /\ UNCHANGED <<config, volumes, snapshots, attachVars, processVars,
                 nodeVars>>

\* the size taken from RequiredBytes alone
CreateVolumeSizeRequiredOnly ==
    /\ rpc.kind = "none" /\ rpc.pc = "idle"
    /\ LET r == [rpc EXCEPT !.kind = "createVolume"]
       IN  rpc' = IF rpc.capRange.required > maximumVolumeSizeInBytes
                  THEN Finish(r, "OutOfRange", "capacity")
                  ELSE [r EXCEPT !.pc = "probe",
                                 !.size = IF rpc.capRange.required > 0
                                          THEN rpc.capRange.required
                                          ELSE defaultVolumeSizeInBytes]
    /\ UNCHANGED <<config, volumes, snapshots, attachVars, processVars,
                 nodeVars>>

\* CreateVolume on a request that has passed the name and capability
\* tests: size, err := getStorageSizeFromCapacityRange(req.CapacityRange)
CreateVolumeSize ==
    /\ rpc.kind = "none" /\ rpc.pc = "idle"
    /\ LET r    == [rpc EXCEPT !.kind = "createVolume"]
           size == getStorageSizeFromCapacityRange(rpc.capRange)
       IN  rpc' = IF size.err THEN Finish(r, "OutOfRange", "capacity")
                  ELSE [r EXCEPT !.pc = "probe", !.size = size.size]
    /\ UNCHANGED <<config, volumes, snapshots, attachVars, processVars,
                 nodeVars>>

\* the resolver's result used whatever the minimum is
ControllerExpandVolumeSizeUnclamped ==
    /\ rpc.kind = "none" /\ rpc.pc = "idle"
    /\ \E volumeId \in {"", "vol-0"} :
         LET r    == [rpc EXCEPT !.kind = "expandVolume", !.ref = volumeId]
             size == getStorageSizeFromCapacityRange(rpc.capRange)
         IN  rpc' = IF volumeId = ""
                    THEN Finish(r, "InvalidArgument", "volumeId")
                    ELSE IF size.err THEN Finish(r, "OutOfRange", "capacity")
                    ELSE [r EXCEPT !.pc = "getVolume",
                                   !.size = IF rpc.capRange.required > 0
                                            THEN rpc.capRange.required
                                            ELSE size.size]
    /\ UNCHANGED <<config, volumes, snapshots, attachVars, processVars,
                 nodeVars>>

\* ControllerExpandVolume up to its first remote call: the volume id is
\* tested, then resizeBytes, err := getStorageSizeFromCapacityRange(..)
ControllerExpandVolumeSize ==
    /\ rpc.kind = "none" /\ rpc.pc = "idle"
    /\ \E volumeId \in {"", "vol-0"} :
         LET r    == [rpc EXCEPT !.kind = "expandVolume", !.ref = volumeId]
             size == getStorageSizeFromCapacityRange(rpc.capRange)
         IN  rpc' = IF volumeId = ""
                    THEN Finish(r, "InvalidArgument", "volumeId")
                    ELSE IF size.err THEN Finish(r, "OutOfRange", "capacity")
                    ELSE [r EXCEPT !.pc = "getVolume", !.size = size.size]
    /\ UNCHANGED <<config, volumes, snapshots, attachVars, processVars,
                 nodeVars>>

\* a request of every capacity range waits to be handled
InitCapacity ==
    /\ config \in {d \in DriverConfigs : d.CustomLabels = Map({}, "")
                                         /\ d.clusterIdentity = ""}
    /\ volumes = <<PreExisting>>
    /\ snapshots = {}
    /\ rpc \in {[IdleRpc EXCEPT !.capRange = c] : c \in CapacityRanges}
    /\ kubeConfig = FALSE
    /\ InitRemote
    /\ ProcessAtRest
    /\ workload = [slots |-> {}, vols |-> {}, nodes |-> {}, caps |-> {},
                   readonly |-> {}, latencies |-> {}, faults |-> TRUE,
                   burst |-> FALSE, casing |-> "any"]
    /\ NodeAtRest

NextCapacity ==
    \/ CreateVolumeSize
    \/ ControllerExpandVolumeSize
    \/ Deliver

SpecCapacity == InitCapacity /\ [][NextCapacity]_vars

\* ============================================================ health check
\* HealthChecker.Check: one goroutine per configured check in an
\* errgroup.Group made without a context, then eg.Wait(). The group keeps
\* the first error handed to it; Wait returns once every goroutine is done.

\* the handler of /health calls Check: eg.Go for each configured check
HealthCheckStart ==
    /\ health.pc = "idle"
    /\ \E n \in 0..MaxChecks :
         health' = [health EXCEPT !.pc = "wait",
                                  !.checks = [i \in 1..n |-> "running"]]
    /\ UNCHANGED <<server, expand, interrupted, attachVars, lifecycleVars,
                 nodeVars>>

\* check i returns, with or without an error; the group keeps the error if
\* it is the first
HealthCheckReturns(i) ==
    /\ health.pc = "wait"
    /\ i \in DOMAIN health.checks
    /\ health.checks[i] = "running"
    /\ \E outcome \in {"ok", "failed"} :
         health' = [health EXCEPT
                      !.checks[i] = outcome,
                      !.err = IF outcome = "failed" /\ @ = ""
                              THEN "check-" \o ToString(i)
                              ELSE @]
    /\ UNCHANGED <<server, expand, interrupted, attachVars, lifecycleVars,
                 nodeVars>>

\* eg.Wait(): every goroutine of the group is done; the first error, or nil
HealthCheckWait ==
    /\ health.pc = "wait"
    /\ \A i \in DOMAIN health.checks : health.checks[i] # "running"
    /\ health' = [health EXCEPT !.pc = "returned",
                                !.result = IF health.err = "" THEN "nil"
                                           ELSE health.err]
    /\ UNCHANGED <<server, expand, interrupted, attachVars, lifecycleVars,
                 nodeVars>>

\* the answer has been written; the next /health request can come
HealthCheckDone ==
    /\ health.pc = "returned"
    /\ health' = IdleHealth
    /\ UNCHANGED <<server, expand, interrupted, attachVars, lifecycleVars,
                 nodeVars>>

InitHealth ==
    /\ Init
    /\ kubeConfig = FALSE

NextHealth ==
    \/ HealthCheckStart
    \/ \E i \in 1..MaxChecks : HealthCheckReturns(i)
    \/ HealthCheckWait
    \/ HealthCheckDone

SpecHealth == InitHealth /\ [][NextHealth]_vars

\* ================================================== readiness of the process
\* Driver.Run and Driver.RunNode: listen, set the flag, serve, and on the
\* end of the context clear the flag and stop; Driver.Probe reads the flag.
\* server.unguarded collects the accesses of d.ready made by a goroutine
\* that does not hold d.readyMu.

\* an access of d.ready by who, who holds the lock or does not
Access(srv, who, what) ==
    IF srv.readyMu = who THEN srv.unguarded ELSE srv.unguarded \cup {what}

\* no Probe is in progress in slot i
IdleProbe == [pc |-> "idle", value |-> FALSE]

\* Run is called: the socket is removed and net.Listen binds it, or fails
RunListen ==
    /\ server.phase = "new"
    /\ \E bound \in BOOLEAN :
         server' = [server EXCEPT
                      !.phase = IF bound THEN "bound" ELSE "failed",
                      !.probe = [i \in 1..MaxProbes |-> IdleProbe]]
    /\ UNCHANGED <<health, expand, interrupted, attachVars, lifecycleVars,
                 nodeVars>>

\* the servers are registered and d.ready = true is written
RunReady ==
    /\ server.phase = "bound"
    /\ server' = [server EXCEPT !.phase = "registered", !.ready = TRUE,
                                !.unguarded = Access(server, "run", "write")]
    /\ UNCHANGED <<health, expand, interrupted, attachVars, lifecycleVars,
                 nodeVars>>

\* eg.Go: the goroutine that waits for the end of the context is started
\* and d.srv.Serve(grpcListener) accepts calls
RunServe ==
    /\ server.phase = "registered"
    /\ server' = [server EXCEPT !.phase = "serving"]
    /\ UNCHANGED <<health, expand, interrupted, attachVars, lifecycleVars,
                 nodeVars>>

\* <-ctx.Done(): shutdown starts
ContextDone ==
    /\ server.phase = "serving"
    /\ server' = [server EXCEPT !.phase = "stopping"]
    /\ UNCHANGED <<health, expand, interrupted, attachVars, lifecycleVars,
                 nodeVars>>

\* d.readyMu.Lock() of the shutdown goroutine
ShutdownLock ==
    /\ server.phase = "stopping"
    /\ server.readyMu = ""
    /\ server' = [server EXCEPT !.phase = "clearing", !.readyMu = "shutdown"]
    /\ UNCHANGED <<health, expand, interrupted, attachVars, lifecycleVars,
                 nodeVars>>

\* d.ready = false; d.readyMu.Unlock()
ShutdownClear ==
    /\ server.phase = "clearing"
    /\ server' = [server EXCEPT
                    !.phase = "cleared", !.ready = FALSE, !.readyMu = "",
                    !.unguarded = Access(server, "shutdown", "write")]
    /\ UNCHANGED <<health, expand, interrupted, attachVars, lifecycleVars,
                 nodeVars>>

\* d.srv.GracefulStop(): no new call is accepted, the calls in progress
\* are let to finish
GracefulStop ==
    /\ server.phase = "cleared"
    /\ server' = [server EXCEPT !.phase = "draining"]
    /\ UNCHANGED <<health, expand, interrupted, attachVars, lifecycleVars,
                 nodeVars>>

\* the last call in progress has returned: Serve returns, Run returns
Drained ==
    /\ server.phase = "draining"
    /\ \A i \in DOMAIN server.probe : server.probe[i].pc = "idle"
    /\ server' = [server EXCEPT !.phase = "stopped"]
    /\ UNCHANGED <<health, expand, interrupted, attachVars, lifecycleVars,
                 nodeVars>>

\* Probe is accepted by the serving process: d.readyMu.Lock()
ProbeLock(i) ==
    /\ server.phase \in {"serving", "stopping", "clearing", "cleared"}
    /\ server.probe[i].pc = "idle"
    /\ server.readyMu = ""
    /\ server' = [server EXCEPT !.probe[i].pc = "locked",
                                !.readyMu = "probe-" \o ToString(i)]
    /\ UNCHANGED <<health, expand, interrupted, attachVars, lifecycleVars,
                 nodeVars>>

\* Value: d.ready, and the deferred d.readyMu.Unlock()
ProbeRead(i) ==
    /\ i \in DOMAIN server.probe
    /\ server.probe[i].pc = "locked"
    /\ server' = [server EXCEPT
                    !.probe[i] = [pc |-> "done", value |-> server.ready],
                    !.readyMu = "",
                    !.unguarded = Access(server, "probe-" \o ToString(i),
                                         "read")]
    /\ UNCHANGED <<health, expand, interrupted, attachVars, lifecycleVars,
                 nodeVars>>

\* the response has been sent
ProbeDone(i) ==
    /\ i \in DOMAIN server.probe
    /\ server.probe[i].pc = "done"
    /\ server' = [server EXCEPT !.probe[i] = IdleProbe]
    /\ UNCHANGED <<health, expand, interrupted, attachVars, lifecycleVars,
                 nodeVars>>

InitServer ==
    /\ Init
    /\ kubeConfig = FALSE

NextServer ==
    \/ RunListen
    \/ RunReady
    \/ RunServe
    \/ ContextDone
    \/ ShutdownLock
    \/ ShutdownClear
    \/ GracefulStop
    \/ Drained
    \/ \E i \in 1..MaxProbes : ProbeLock(i)
    \/ \E i \in 1..MaxProbes : ProbeRead(i)
    \/ \E i \in 1..MaxProbes : ProbeDone(i)

SpecServer == InitServer /\ [][NextServer]_vars

\* ================================================== ControllerExpandVolume
\* The handler, one record per call in progress: the gRPC server runs each
\* call in its own goroutine and the handler takes no lock, so the steps of
\* two calls interleave at the remote calls.

\* a call that has not arrived
IdleExpand ==
    [pc |-> "idle", volumeId |-> "", accessType |-> "none",
     resizeBytes |-> 0, resizeGigaBytes |-> 0, volume |-> 0, updates |-> <<>>,
     code |-> "", CapacityBytes |-> 0, NodeExpansionRequired |-> FALSE]

\* req.GetVolumeCapability(): nil, or a capability of access type mount or
\* block
ExpandAccessTypes == {"none", "mount", "block"}

\* the call returns with an error
ExpandFails(x, code) == [x EXCEPT !.pc = "done", !.code = code]

\* the index in the remote service of the volume of that identity, or 0
ExpandTarget(volumeId) ==
    IF \E i \in DOMAIN volumes : volumes[i].Identity = volumeId
    THEN CHOOSE i \in DOMAIN volumes : volumes[i].Identity = volumeId
    ELSE 0

\* volume.Size >= int(requestedSize)
isVolumeSizeEuqalOrLargerThanRequested(volumeSize, requestedSize) ==
    volumeSize >= requestedSize

\* the request arrives: the volume id is tested, the capacity range is
\* resolved and resizeGigaBytes := resizeBytes / giB
ControllerExpandVolume(c) ==
    /\ expand[c].pc = "idle"
    /\ \E volumeId \in {"", "vol-0"}, capRange \in CapacityRanges,
          accessType \in ExpandAccessTypes :
         LET x    == [IdleExpand EXCEPT !.volumeId = volumeId,
                                        !.accessType = accessType]
             size == getStorageSizeFromCapacityRange(capRange)
         IN  expand' = [expand EXCEPT ![c] =
               IF volumeId = "" THEN ExpandFails(x, "InvalidArgument")
               ELSE IF size.err THEN ExpandFails(x, "OutOfRange")
               ELSE [x EXCEPT !.pc = "getVolume",
                              !.resizeBytes = size.size,
                              !.resizeGigaBytes = size.size \div giB]]
    /\ UNCHANGED <<health, server, interrupted, attachVars, lifecycleVars,
                 nodeVars>>

\* d.iaas.GetVolume: an error is Internal; a volume at least as large as
\* asked for is answered at once, with its own size
ControllerExpandVolumeGet(c) ==
    /\ expand[c].pc = "getVolume"
    /\ \E failed \in BOOLEAN :
         LET x == expand[c]
             i == ExpandTarget(x.volumeId)
         IN  expand' = [expand EXCEPT ![c] =
               IF failed \/ i = 0 THEN ExpandFails(x, "Internal")
               ELSE IF isVolumeSizeEuqalOrLargerThanRequested(
                          volumes[i].Size, x.resizeGigaBytes)
                    THEN [x EXCEPT !.pc = "done", !.code = "OK",
                                   !.volume = volumes[i].Size,
                                   !.CapacityBytes = volumes[i].Size * giB,
                                   !.NodeExpansionRequired = TRUE]
               ELSE [x EXCEPT !.pc = "updateVolume",
                              !.volume = volumes[i].Size]]
    /\ UNCHANGED <<health, server, interrupted, attachVars, lifecycleVars,
                 nodeVars>>

\* d.iaas.UpdateVolume with Size: int(resizeGigaBytes): an error is
\* Internal; the remote service takes the size it is sent; node expansion
\* is required unless the capability is block
ControllerExpandVolumeUpdate(c) ==
    /\ expand[c].pc = "updateVolume"
    /\ \E failed \in BOOLEAN :
         LET x == [expand[c] EXCEPT !.updates = Append(@, expand[c].resizeGigaBytes)]
             i == ExpandTarget(x.volumeId)
         IN  IF failed \/ i = 0
             THEN /\ expand' = [expand EXCEPT ![c] = ExpandFails(x, "Internal")]
                  /\ UNCHANGED volumes
             ELSE /\ volumes' = [volumes EXCEPT ![i].Size = x.resizeGigaBytes]
                  /\ expand' = [expand EXCEPT ![c] =
                       [x EXCEPT !.pc = "done", !.code = "OK",
                                 !.CapacityBytes = x.resizeGigaBytes * giB,
                                 !.NodeExpansionRequired =
                                     (x.accessType # "block")]]
    /\ UNCHANGED <<health, server, interrupted, attachVars, nodeVars, config,
                 snapshots, rpc>>

\* the response is handed to the caller
ControllerExpandVolumeReturn(c) ==
    /\ expand[c].pc = "done"
    /\ expand' = [expand EXCEPT ![c] = IdleExpand]
    /\ UNCHANGED <<health, server, interrupted, attachVars, lifecycleVars,
                 nodeVars>>

\* the calls that can be in progress at once
ExpandSlots == 1..MaxExpand

\* no call has arrived; the volume of the start exists, 1 GiB large
InitExpand ==
    /\ config \in {d \in DriverConfigs : d.CustomLabels = Map({}, "")
                                         /\ d.clusterIdentity = ""}
    /\ volumes = <<PreExisting>>
    /\ snapshots = {}
    /\ rpc = IdleRpc
    /\ kubeConfig = FALSE
    /\ InitRemote
    /\ health = IdleHealth
    /\ server = IdleServer
    /\ expand = [c \in ExpandSlots |-> IdleExpand]
    /\ interrupted = <<>>
    /\ workload = [slots |-> {}, vols |-> {}, nodes |-> {}, caps |-> {},
                   readonly |-> {}, latencies |-> {}, faults |-> TRUE,
                   burst |-> FALSE, casing |-> "any"]
    /\ NodeAtRest

NextExpand ==
    \E c \in ExpandSlots :
        \/ ControllerExpandVolume(c)
        \/ ControllerExpandVolumeGet(c)
        \/ ControllerExpandVolumeUpdate(c)
        \/ ControllerExpandVolumeReturn(c)

SpecExpand == InitExpand /\ [][NextExpand]_vars

\* ========================================================= node handlers
\* One action per OS command the handler runs, in the handler's order;
\* the orchestrator issues the node calls of one machine one at a time.

\* a handler ends with a gRPC code
NodeFinish(r, code) == [r EXCEPT !.pc = "done", !.code = code]

\* mounter.IsAttached: the state file must read exactly runningState
IsAttached(content) == content = runningState

\* the exit codes blkid can end with on a device: 0 with a signature
\* found, 2 with none, others (4 usage, 8 ambivalent) when it fails
BlkidExits(signed) == IF signed THEN {0, 8} ELSE {blkidExitStatusNoIdentifiers, 4}

\* mounter.IsFormatted on the exit code of blkid
IsFormatted(exitCode) ==
    IF exitCode = 0 THEN [formatted |-> TRUE, err |-> FALSE]
    ELSE IF exitCode = blkidExitStatusNoIdentifiers
         THEN [formatted |-> FALSE, err |-> FALSE]
         ELSE [formatted |-> FALSE, err |-> TRUE]

\* what findmnt -M target -J can answer: nothing and a non-zero exit when
\* nothing is mounted there, one entry per mount otherwise, or a failure
\* with a message
FindmntResults(target) ==
    IF host.mounted[target] = 0
    THEN { [failed |-> TRUE, out |-> <<>>] }
    ELSE { [failed |-> FALSE,
            out |-> [i \in 1..host.mounted[target] |->
                       [Target |-> target,
                        Propagation |-> host.propagation]]],
           [failed |-> TRUE,
            out |-> <<[Target |-> "findmnt: error", Propagation |-> ""]>>] }

\* the loop of mounter.IsMounted over resp.FileSystems
RECURSIVE ScanFileSystems(_, _, _, _)
ScanFileSystems(filesystems, target, i, targetFound) ==
    IF i > Len(filesystems) THEN [mounted |-> targetFound, err |-> FALSE]
    ELSE IF filesystems[i].Propagation # "shared"
         THEN [mounted |-> TRUE, err |-> TRUE]
         ELSE ScanFileSystems(filesystems, target, i + 1,
                              targetFound \/ filesystems[i].Target = target)

\* mounter.IsMounted on the answer of findmnt
IsMounted(target, findmnt) ==
    IF findmnt.failed
    THEN [mounted |-> FALSE, err |-> findmnt.out # <<>>]
    ELSE IF findmnt.out = <<>> THEN [mounted |-> FALSE, err |-> FALSE]
    ELSE ScanFileSystems(findmnt.out, target, 1, FALSE)

\* mounter.Unmount: CleanupMountPoint takes one mount off the path, and
\* finds nothing to do on a path that is not mounted
Unmount(h, target) ==
    [h EXCEPT !.mounted[target] = IF @ > 0 THEN @ - 1 ELSE 0,
              !.device[target] = @ /\ h.mounted[target] > 1]

\* NodeStageVolume up to its first OS command: validation, the block
\* no-op, the filesystem type default, the no-format marker
NodeStageVolume(c) ==
    /\ nodeCall[c].pc = "idle"
    /\ \E vol \in VolumeIds, staging \in StagingPaths,
          cap \in NodeCapabilities, noFormat \in BOOLEAN :
         LET r == [IdleNodeCall EXCEPT
                     !.kind = "NodeStageVolume", !.vol = vol,
                     !.staging = staging, !.access = cap.type,
                     !.noFormat = noFormat,
                     !.reqFsType = cap.fsType,
                     !.options = cap.flags,
                     !.fsType = IF cap.fsType # "" THEN cap.fsType
                                ELSE "ext4"]
         IN nodeCall' = [nodeCall EXCEPT ![c] =
              IF vol = "" \/ staging = "" \/ cap.type = "nil"
              THEN NodeFinish(r, "InvalidArgument")
              ELSE IF cap.type = "block" THEN NodeFinish(r, "OK")
              ELSE IF noFormat THEN [r EXCEPT !.pc = "isMounted"]
              ELSE IF validateAttachment
                   THEN [r EXCEPT !.pc = "isAttached"]
                   ELSE [r EXCEPT !.pc = "isFormatted"]]
    /\ UNCHANGED <<validateAttachment, host, attachVars, processVars,
                 lifecycleVars>>

\* d.mounter.IsAttached(source)
NodeStageIsAttached(c) ==
    /\ nodeCall[c].pc = "isAttached"
    /\ nodeCall' = [nodeCall EXCEPT ![c] =
         IF IsAttached(host.state[nodeCall[c].vol])
         THEN [@ EXCEPT !.pc = "isFormatted", !.cmds = @ \cup {"state"}]
         ELSE NodeFinish([@ EXCEPT !.cmds = @ \cup {"state"}], "Internal")]
    /\ UNCHANGED <<validateAttachment, host, attachVars, processVars,
                 lifecycleVars>>

\* the signature probe taken as "no signature" whatever blkid says
NodeStageIsFormattedIgnored(c) ==
    /\ nodeCall[c].pc = "isFormatted"
    /\ \E exitCode \in BlkidExits(host.signed[nodeCall[c].vol]) :
         nodeCall' = [nodeCall EXCEPT ![c] =
           [@ EXCEPT !.probedSigned = host.signed[nodeCall[c].vol],
                     !.cmds = @ \cup {"blkid"},
                     !.pc = "format"]]
    /\ UNCHANGED <<validateAttachment, host, attachVars, processVars,
                 lifecycleVars>>

\* formatted, err := d.mounter.IsFormatted(source)
NodeStageIsFormatted(c) ==
    /\ nodeCall[c].pc = "isFormatted"
    /\ \E exitCode \in BlkidExits(host.signed[nodeCall[c].vol]) :
         LET res == IsFormatted(exitCode)
             r == [nodeCall[c] EXCEPT
                     !.probedSigned = host.signed[nodeCall[c].vol],
                     !.cmds = @ \cup {"blkid"}]
         IN nodeCall' = [nodeCall EXCEPT ![c] =
              IF res.err
              THEN NodeFinish([r EXCEPT !.osFailed = TRUE], "Unknown")
              ELSE IF ~res.formatted THEN [r EXCEPT !.pc = "format"]
              ELSE [r EXCEPT !.pc = "isMounted"]]
    /\ UNCHANGED <<validateAttachment, host, attachVars, processVars,
                 lifecycleVars>>

\* d.mounter.Format(source, fsType): mkfs writes the filesystem or fails
NodeStageFormat(c) ==
    /\ nodeCall[c].pc = "format"
    /\ host.formats[nodeCall[c].vol] < MaxRepeat
    /\ \E ok \in BOOLEAN :
         LET r == [nodeCall[c] EXCEPT !.nFormat = @ + 1,
                                      !.cmds = @ \cup {"mkfs"}]
         IN IF ok
            THEN /\ host' = [host EXCEPT !.signed[r.vol] = TRUE,
                                         !.formats[r.vol] = @ + 1]
                 /\ nodeCall' = [nodeCall EXCEPT ![c] =
                                   [r EXCEPT !.pc = "isMounted"]]
            ELSE /\ host' = host
                 /\ nodeCall' = [nodeCall EXCEPT ![c] =
                      NodeFinish([r EXCEPT !.osFailed = TRUE], "Internal")]
    /\ UNCHANGED <<validateAttachment, attachVars, processVars,
                 lifecycleVars>>

\* the mount probe taken as "not mounted" whatever findmnt says
NodeStageIsMountedIgnored(c) ==
    /\ nodeCall[c].pc = "isMounted"
    /\ \E findmnt \in FindmntResults(nodeCall[c].staging) :
         nodeCall' = [nodeCall EXCEPT ![c] =
           [@ EXCEPT !.probedMounted = host.mounted[nodeCall[c].staging] > 0,
                     !.cmds = @ \cup {"findmnt"},
                     !.pc = "mount"]]
    /\ UNCHANGED <<validateAttachment, host, attachVars, processVars,
                 lifecycleVars>>

\* mounted, err := d.mounter.IsMounted(target), for the staging path
NodeStageIsMounted(c) ==
    /\ nodeCall[c].pc = "isMounted"
    /\ \E findmnt \in FindmntResults(nodeCall[c].staging) :
         LET res == IsMounted(nodeCall[c].staging, findmnt)
             r == [nodeCall[c] EXCEPT
                     !.probedMounted = host.mounted[nodeCall[c].staging] > 0,
                     !.cmds = @ \cup {"findmnt"},
                     !.osFailed = findmnt.failed /\ findmnt.out # <<>>]
         IN nodeCall' = [nodeCall EXCEPT ![c] =
              IF res.err THEN NodeFinish(r, "Unknown")
              ELSE IF ~res.mounted THEN [r EXCEPT !.pc = "mount"]
              ELSE [r EXCEPT !.pc = "resize"]]
    /\ UNCHANGED <<validateAttachment, host, attachVars, processVars,
                 lifecycleVars>>

\* d.mounter.Mount(source, target, fsType, options...): the mount command
\* fails on a device that carries no filesystem, and may fail otherwise
NodeStageMount(c) ==
    /\ nodeCall[c].pc = "mount"
    /\ host.mounted[nodeCall[c].staging] < MaxRepeat
    /\ \E ok \in (IF host.signed[nodeCall[c].vol] THEN BOOLEAN ELSE {FALSE}) :
         LET r == [nodeCall[c] EXCEPT
                     !.nMount = @ + 1, !.cmds = @ \cup {"mount"},
                     !.mountCalls = Append(@, [fsType |-> nodeCall[c].fsType,
                                               options |-> nodeCall[c].options])]
         IN IF ok
            THEN /\ host' = [host EXCEPT !.mounted[r.staging] = @ + 1]
                 /\ nodeCall' = [nodeCall EXCEPT ![c] =
                                   [r EXCEPT !.pc = "resize"]]
            ELSE /\ host' = host
                 /\ nodeCall' = [nodeCall EXCEPT ![c] =
                      NodeFinish([r EXCEPT !.osFailed = TRUE], "Internal")]
    /\ UNCHANGED <<validateAttachment, attachVars, processVars,
                 lifecycleVars>>

\* os.Stat(source), r.NeedResize and r.Resize: the filesystem is grown to
\* the device when it is smaller, and either command may fail
NodeStageResize(c) ==
    /\ nodeCall[c].pc = "resize"
    /\ \E ok \in BOOLEAN :
         nodeCall' = [nodeCall EXCEPT ![c] =
           IF ok THEN NodeFinish([@ EXCEPT !.cmds = @ \cup {"resize"}], "OK")
           ELSE NodeFinish([@ EXCEPT !.osFailed = TRUE,
                                     !.cmds = @ \cup {"resize"}], "Internal")]
    /\ UNCHANGED <<validateAttachment, host, attachVars, processVars,
                 lifecycleVars>>

\* NodeUnstageVolume up to its unmount: validation and the mount probe
NodeUnstageVolume(c) ==
    /\ nodeCall[c].pc = "idle"
    /\ \E vol \in VolumeIds, staging \in StagingPaths :
         LET r == [IdleNodeCall EXCEPT !.kind = "NodeUnstageVolume",
                                       !.vol = vol, !.staging = staging]
         IN IF vol = "" \/ staging = ""
            THEN nodeCall' = [nodeCall EXCEPT ![c] =
                                NodeFinish(r, "InvalidArgument")]
            ELSE \E findmnt \in FindmntResults(staging) :
                   LET res == IsMounted(staging, findmnt)
                       q == [r EXCEPT
                               !.probedMounted = host.mounted[staging] > 0,
                               !.cmds = @ \cup {"findmnt"},
                               !.osFailed = findmnt.failed /\ findmnt.out # <<>>]
                   IN nodeCall' = [nodeCall EXCEPT ![c] =
                        IF res.err THEN NodeFinish(q, "Internal")
                        ELSE IF res.mounted THEN [q EXCEPT !.pc = "unmount"]
                        ELSE NodeFinish(q, "OK")]
    /\ UNCHANGED <<validateAttachment, host, attachVars, processVars,
                 lifecycleVars>>

\* the unmount of the staging path with its error dropped
NodeUnstageUnmountErrorDropped(c) ==
    /\ nodeCall[c].pc = "unmount"
    /\ \E ok \in BOOLEAN :
         /\ host' = IF ok THEN Unmount(host, nodeCall[c].staging) ELSE host
         /\ nodeCall' = [nodeCall EXCEPT ![c] =
              NodeFinish([@ EXCEPT !.osFailed = ~ok,
                                   !.cmds = @ \cup {"umount"}], "OK")]
    /\ UNCHANGED <<validateAttachment, attachVars, processVars,
                 lifecycleVars>>

\* d.mounter.Unmount(req.StagingTargetPath)
NodeUnstageUnmount(c) ==
    /\ nodeCall[c].pc = "unmount"
    /\ \E ok \in BOOLEAN :
         IF ok
         THEN /\ host' = Unmount(host, nodeCall[c].staging)
              /\ nodeCall' = [nodeCall EXCEPT ![c] =
                   NodeFinish([@ EXCEPT !.cmds = @ \cup {"umount"}], "OK")]
         ELSE /\ host' = host
              /\ nodeCall' = [nodeCall EXCEPT ![c] =
                   NodeFinish([@ EXCEPT !.osFailed = TRUE,
                                        !.cmds = @ \cup {"umount"}],
                              "Internal")]
    /\ UNCHANGED <<validateAttachment, attachVars, processVars,
                 lifecycleVars>>

\* the filesystem type and the options the mount of NodePublishVolume
\* ignores the FsType default for
PublishMountArgsNoDefault(cap, readonly) ==
    [fsType |-> cap.fsType,
     options |-> (IF readonly THEN <<"bind", "ro">> ELSE <<"bind">>)
                 \o cap.flags]

\* the filesystem type and the options NodePublishVolume hands to Mount:
\* bind, ro for a read-only request, then the mount flags and the FsType
\* (ext4 when unset) of mount access, neither of them for block access
PublishMountArgs(cap, readonly) ==
    LET options == IF readonly THEN <<"bind", "ro">> ELSE <<"bind">>
    IN IF cap.type = "block"
       THEN [fsType |-> "", options |-> options]
       ELSE [fsType |-> IF cap.fsType # "" THEN cap.fsType ELSE "ext4",
             options |-> options \o cap.flags]

\* NodePublishVolume up to its mount: validation, the access type switch,
\* the device resolution of nodePublishVolumeForBlock, and the mount probe
\* of the target path
NodePublishVolume(c) ==
    /\ nodeCall[c].pc = "idle"
    /\ \E vol \in VolumeIds, staging \in StagingPaths,
          target \in TargetPaths, cap \in NodeCapabilities,
          readonly \in BOOLEAN, resolved \in BOOLEAN :
         LET r == [IdleNodeCall EXCEPT
                     !.kind = "NodePublishVolume", !.vol = vol,
                     !.staging = staging, !.target = target,
                     !.access = cap.type,
                     !.reqFsType = cap.fsType,
                     !.fsType = PublishMountArgs(cap, readonly).fsType,
                     !.options = PublishMountArgs(cap, readonly).options]
         IN IF vol = "" \/ staging = "" \/ target = "" \/ cap.type = "nil"
            THEN nodeCall' = [nodeCall EXCEPT ![c] =
                                NodeFinish(r, "InvalidArgument")]
            ELSE IF cap.type = "block" /\ ~resolved
            THEN nodeCall' = [nodeCall EXCEPT ![c] =
                   NodeFinish([r EXCEPT !.osFailed = TRUE,
                                        !.cmds = {"readlink"}], "Internal")]
            ELSE \E findmnt \in FindmntResults(target) :
                   LET res == IsMounted(target, findmnt)
                       q == [r EXCEPT
                               !.probedMounted = host.mounted[target] > 0,
                               !.cmds = IF cap.type = "block"
                                        THEN {"readlink", "findmnt"}
                                        ELSE {"findmnt"},
                               !.osFailed = findmnt.failed /\ findmnt.out # <<>>]
                   IN nodeCall' = [nodeCall EXCEPT ![c] =
                        IF res.err THEN NodeFinish(q, "Unknown")
                        ELSE IF ~res.mounted THEN [q EXCEPT !.pc = "bind"]
                        ELSE NodeFinish(q, "OK")]
    /\ UNCHANGED <<validateAttachment, host, attachVars, processVars,
                 lifecycleVars>>

\* d.mounter.Mount(source, target, fsType, mountOptions...) of the two
\* nodePublishVolumeFor functions: the bind mount on the target path
NodePublishMount(c) ==
    /\ nodeCall[c].pc = "bind"
    /\ host.mounted[nodeCall[c].target] < MaxRepeat
    /\ \E ok \in BOOLEAN :
         LET r == [nodeCall[c] EXCEPT
                     !.nMount = @ + 1, !.cmds = @ \cup {"mount"},
                     !.mountCalls = Append(@, [fsType |-> nodeCall[c].fsType,
                                               options |-> nodeCall[c].options])]
         IN IF ok
            THEN /\ host' = [host EXCEPT !.mounted[r.target] = @ + 1,
                                         !.device[r.target] = r.access = "block"]
                 /\ nodeCall' = [nodeCall EXCEPT ![c] = NodeFinish(r, "OK")]
            ELSE /\ host' = host
                 /\ nodeCall' = [nodeCall EXCEPT ![c] =
                      NodeFinish([r EXCEPT !.osFailed = TRUE], "Internal")]
    /\ UNCHANGED <<validateAttachment, attachVars, processVars,
                 lifecycleVars>>

\* NodeUnpublishVolume: validation, then the unmount of the target path,
\* which runs umount only when something is mounted there
NodeUnpublishVolume(c) ==
    /\ nodeCall[c].pc = "idle"
    /\ \E vol \in VolumeIds, target \in TargetPaths, ok \in BOOLEAN :
         LET r == [IdleNodeCall EXCEPT !.kind = "NodeUnpublishVolume",
                                       !.vol = vol, !.target = target]
             q == [r EXCEPT
                     !.probedMounted = host.mounted[target] > 0,
                     !.cmds = IF host.mounted[target] > 0
                              THEN {"umount"} ELSE {}]
         IN IF vol = "" \/ target = ""
            THEN /\ host' = host
                 /\ nodeCall' = [nodeCall EXCEPT ![c] =
                                   NodeFinish(r, "InvalidArgument")]
            ELSE IF ok
            THEN /\ host' = Unmount(host, target)
                 /\ nodeCall' = [nodeCall EXCEPT ![c] = NodeFinish(q, "OK")]
            ELSE /\ host' = host
                 /\ nodeCall' = [nodeCall EXCEPT ![c] =
                      NodeFinish([q EXCEPT !.osFailed = TRUE], "Unknown")]
    /\ UNCHANGED <<validateAttachment, attachVars, processVars,
                 lifecycleVars>>

\* the paths NodeExpandVolume and NodeGetVolumeStats are asked about
VolumePaths == {""} \cup MountPoints

\* what mount.GetDeviceNameFromMount answers for a mounted path: the
\* device, no device, or an error
DeviceNames == {"device", "", "error"}

\* NodeExpandVolume: validation, the block no-op, the mount probe of the
\* volume path, the device of the mount, the resize
NodeExpandVolume(c) ==
    /\ nodeCall[c].pc = "idle"
    /\ \E vol \in VolumeIds, volumePath \in VolumePaths,
          cap \in NodeCapabilities, devicePath \in DeviceNames,
          ok \in BOOLEAN :
         LET r == [IdleNodeCall EXCEPT !.kind = "NodeExpandVolume",
                                       !.vol = vol, !.target = volumePath,
                                       !.access = cap.type]
         IN IF vol = "" \/ volumePath = ""
            THEN nodeCall' = [nodeCall EXCEPT ![c] =
                                NodeFinish(r, "InvalidArgument")]
            ELSE IF cap.type = "block"
            THEN nodeCall' = [nodeCall EXCEPT ![c] = NodeFinish(r, "OK")]
            ELSE \E findmnt \in FindmntResults(volumePath) :
                   LET res == IsMounted(volumePath, findmnt)
                       q == [r EXCEPT
                               !.probedMounted = host.mounted[volumePath] > 0,
                               !.cmds = {"findmnt"},
                               !.osFailed = findmnt.failed /\ findmnt.out # <<>>]
                   IN nodeCall' = [nodeCall EXCEPT ![c] =
                        IF res.err THEN NodeFinish(q, "Internal")
                        ELSE IF ~res.mounted THEN NodeFinish(q, "NotFound")
                        ELSE IF devicePath = "error"
                        THEN NodeFinish([q EXCEPT !.osFailed = TRUE],
                                        "Internal")
                        ELSE IF devicePath = ""
                        THEN NodeFinish(q, "NotFound")
                        ELSE NodeFinish([q EXCEPT
                                           !.cmds = @ \cup {"resize"},
                                           !.osFailed = ~ok],
                                        IF ok THEN "OK" ELSE "Internal")]
    /\ UNCHANGED <<validateAttachment, host, attachVars, processVars,
                 lifecycleVars>>

\* what unix.Statfs reports for a mounted filesystem, in blocks and
\* inodes, and what blockdev getsize64 reports for a device, in bytes
StatfsResults ==
    { st \in [Bsize : {1, 2}, Blocks : {2}, Bfree : 0..1, Bavail : 0..1,
              Files : {2}, Ffree : 0..1] : st.Bavail <= st.Bfree }
DeviceSizes == {2, 4}

\* volumeStatistics of mounter.GetStatistics for a block device
BlockStatistics(size) ==
    [availableBytes |-> 0, totalBytes |-> size, usedBytes |-> 0,
     availableInodes |-> 0, totalInodes |-> 0, usedInodes |-> 0]

\* volumeStatistics of mounter.GetStatistics for a filesystem
FsStatistics(statfs) ==
    [availableBytes |-> statfs.Bavail * statfs.Bsize,
     totalBytes |-> statfs.Blocks * statfs.Bsize,
     usedBytes |-> (statfs.Blocks - statfs.Bfree) * statfs.Bsize,
     availableInodes |-> statfs.Ffree,
     totalInodes |-> statfs.Files,
     usedInodes |-> statfs.Files - statfs.Ffree]

\* a csi.VolumeUsage, the fields the handler leaves out being zero
VolumeUsage(unit, available, total, used) ==
    [Unit |-> unit, Available |-> available, Total |-> total, Used |-> used]

\* the Usage of a response that gives a block device the entries of a
\* filesystem
StatsUsageUnbranched(isBlock, stats) ==
    << VolumeUsage("BYTES", stats.availableBytes, stats.totalBytes,
                   stats.usedBytes),
       VolumeUsage("INODES", stats.availableInodes, stats.totalInodes,
                   stats.usedInodes) >>

\* the Usage of the NodeGetVolumeStats response
StatsUsage(isBlock, stats) ==
    IF isBlock
    THEN << VolumeUsage("BYTES", 0, stats.totalBytes, 0) >>
    ELSE << VolumeUsage("BYTES", stats.availableBytes, stats.totalBytes,
                        stats.usedBytes),
            VolumeUsage("INODES", stats.availableInodes, stats.totalInodes,
                        stats.usedInodes) >>

\* NodeGetVolumeStats: validation, the mount probe of the volume path,
\* IsBlockDevice, the device of the mount for a block volume, the
\* statistics of the device or of the filesystem, the response
NodeGetVolumeStats(c) ==
    /\ nodeCall[c].pc = "idle"
    /\ \E vol \in VolumeIds, volumePath \in VolumePaths :
         LET r == [IdleNodeCall EXCEPT !.kind = "NodeGetVolumeStats",
                                       !.vol = vol, !.target = volumePath]
         IN IF vol = "" \/ volumePath = ""
            THEN nodeCall' = [nodeCall EXCEPT ![c] =
                                NodeFinish(r, "InvalidArgument")]
            ELSE \E findmnt \in FindmntResults(volumePath),
                    statOk \in BOOLEAN,
                    devicePath \in (IF host.device[volumePath]
                                    THEN DeviceNames ELSE {"device"}),
                    stats \in (IF host.device[volumePath]
                               THEN {BlockStatistics(n) : n \in DeviceSizes}
                               ELSE {FsStatistics(st) : st \in StatfsResults}),
                    ok \in BOOLEAN :
                   LET res == IsMounted(volumePath, findmnt)
                       isBlock == host.device[volumePath]
                       q == [r EXCEPT
                               !.probedMounted = host.mounted[volumePath] > 0,
                               !.cmds = {"findmnt"},
                               !.osFailed = findmnt.failed /\ findmnt.out # <<>>]
                       failed == [q EXCEPT !.osFailed = TRUE,
                                           !.cmds = @ \cup {"stat"}]
                   IN nodeCall' = [nodeCall EXCEPT ![c] =
                        IF res.err THEN NodeFinish(q, "Internal")
                        ELSE IF ~res.mounted THEN NodeFinish(q, "NotFound")
                        ELSE IF ~statOk THEN NodeFinish(failed, "Internal")
                        ELSE IF isBlock /\ devicePath # "device"
                        THEN NodeFinish(failed, "Internal")
                        ELSE IF ~ok THEN NodeFinish(failed, "Internal")
                        ELSE NodeFinish([q EXCEPT
                               !.cmds = @ \cup {"stat"},
                               !.usage = StatsUsage(isBlock, stats)], "OK")]
    /\ UNCHANGED <<validateAttachment, host, attachVars, processVars,
                 lifecycleVars>>

\* the response reaches the orchestrator, which may issue its next call
NodeReturn(c) ==
    /\ nodeCall[c].pc = "done"
    /\ nodeCall' = [nodeCall EXCEPT ![c] = IdleNodeCall]
    /\ UNCHANGED <<validateAttachment, host, attachVars, processVars,
                 lifecycleVars>>

\* the node plugin starts on a host, with or without attachment validation
InitNode ==
    /\ validateAttachment \in BOOLEAN
    /\ host \in InitialHosts
    /\ nodeCall = [c \in {1} |-> IdleNodeCall]
    /\ LifecycleAtRest
    /\ kubeConfig = FALSE
    /\ InitRemote
    /\ ProcessAtRest
    /\ workload = [slots |-> {}, vols |-> {}, nodes |-> {}, caps |-> {},
                   readonly |-> {}, latencies |-> {}, faults |-> TRUE,
                   burst |-> FALSE, casing |-> "any"]

NextNode ==
    \E c \in DOMAIN nodeCall :
        \/ NodeStageVolume(c)
        \/ NodeStageIsAttached(c)
        \/ NodeStageIsFormatted(c)
        \/ NodeStageFormat(c)
        \/ NodeStageIsMounted(c)
        \/ NodeStageMount(c)
        \/ NodeStageResize(c)
        \/ NodeUnstageVolume(c)
        \/ NodeUnstageUnmount(c)
        \/ NodePublishVolume(c)
        \/ NodePublishMount(c)
        \/ NodeUnpublishVolume(c)
        \/ NodeExpandVolume(c)
        \/ NodeGetVolumeStats(c)
        \/ NodeReturn(c)

SpecNode == InitNode /\ [][NextNode]_vars

\* ------------------------------------------------ a Stage that is cut short
\* The plugin keeps nothing between calls: when the process dies while
\* NodeStageVolume runs, all that is left is what the OS commands that
\* completed did to the host. The orchestrator issues the call again.

\* the arguments of a NodeStageVolume call
StageArguments(r) ==
    [vol |-> r.vol, staging |-> r.staging, access |-> r.access,
     reqFsType |-> r.reqFsType, options |-> r.options,
     noFormat |-> r.noFormat]

\* the process dies between two steps of a NodeStageVolume with mount
\* access; at is the step that had not been made yet
NodeInterrupt(c) ==
    /\ interrupted = <<>>
    /\ nodeCall[c].kind = "NodeStageVolume"
    /\ nodeCall[c].pc \in {"isAttached", "isFormatted", "format", "isMounted",
                           "mount", "resize"}
    /\ interrupted' = <<[args |-> StageArguments(nodeCall[c]),
                         at |-> nodeCall[c].pc,
                         failed |-> nodeCall[c].osFailed]>>
    /\ nodeCall' = [nodeCall EXCEPT ![c] = IdleNodeCall]
    /\ UNCHANGED <<validateAttachment, host, attachVars, lifecycleVars,
                   health, server, expand>>

NextNodeCrash ==
    \E c \in DOMAIN nodeCall :
        \/ NodeStageVolume(c)
        \/ NodeStageIsAttached(c)
        \/ NodeStageIsFormatted(c)
        \/ NodeStageFormat(c)
        \/ NodeStageIsMounted(c)
        \/ NodeStageMount(c)
        \/ NodeStageResize(c)
        \/ NodeInterrupt(c)
        \/ NodeReturn(c)

\* the host on which one volume is to be staged: the device of the
\* existing volume is in any state, the others are as at rest
InitNodeCrash ==
    /\ InitNode
    /\ \A d \in Devices \ ExistingVolumes :
         ~host.signed[d] /\ host.state[d] = runningState

\* calls one after another, any one of them cut short
SpecNodeCrash == InitNodeCrash /\ [][NextNodeCrash]_vars

\* ------------------------------------------- two calls for one staging path
\* a misbehaving orchestrator issues a second call for a staging path
\* while the first is running
InitNodeConc ==
    /\ validateAttachment = FALSE
    /\ host \in {h \in InitialHosts :
                   /\ h.propagation = "shared"
                   /\ \A d \in Devices : h.state[d] = runningState
                   /\ \A d \in Devices : ~h.signed[d]}
    /\ nodeCall = [c \in {1, 2} |-> IdleNodeCall]
    /\ LifecycleAtRest
    /\ kubeConfig = FALSE
    /\ InitRemote
    /\ ProcessAtRest
    /\ workload = [slots |-> {}, vols |-> {}, nodes |-> {}, caps |-> {},
                   readonly |-> {}, latencies |-> {}, faults |-> TRUE,
                   burst |-> FALSE, casing |-> "any"]

NextNodeConc ==
    \E c \in DOMAIN nodeCall :
        \/ NodeStageVolume(c)
        \/ NodeStageIsFormatted(c)
        \/ NodeStageFormat(c)
        \/ NodeStageIsMounted(c)
        \/ NodeStageMount(c)
        \/ NodeStageResize(c)
        \/ NodeUnstageVolume(c)
        \/ NodeUnstageUnmount(c)
        \/ NodeReturn(c)

SpecNodeConc == InitNodeConc /\ [][NextNodeConc]_vars

\* ================================================================= claims
Publishes(c) == call[c].kind = "publish"
Unpublishes(c) == call[c].kind = "unpublish"
Done(c) == call[c].pc = "done"
\* the handler has resolved the machine it works on
Resolved(c) == call[c].target # ""
\* the volume as the handler read it has an attachment on machine m
SnapshotOn(c, m) == \E i \in 1..Len(call[c].atts) : call[c].atts[i] = m

\* C1: a ControllerPublishVolume whose volume (as read by its GetVolume) is
\* attached, and not to the resolved target machine, ends with
\* FailedPrecondition having issued no attach call, and the step that returns
\* FailedPrecondition leaves the remote attachments and status as they were.
C1_ConflictNeverRepoints ==
    /\ [](\A c \in Slots :
            (Publishes(c) /\ Resolved(c) /\ call[c].atts # <<>>
                /\ ~SnapshotOn(c, call[c].target))
            => (Done(c) /\ call[c].code = "FailedPrecondition"
                  /\ call[c].nAttach = 0 /\ call[c].polls = 0))
    /\ [][\A c \in Slots :
            (call'[c].code = "FailedPrecondition" /\ call[c].code # "FailedPrecondition")
            => (volAttach' = volAttach /\ volStatus' = volStatus)]_vars

\* a publish to m1 was refused because the volume is attached to another
\* machine, and that attachment is still there
C1_Witness ==
    \E c \in Slots :
        /\ Publishes(c) /\ Done(c) /\ call[c].code = "FailedPrecondition"
        /\ call[c].target = "m1" /\ call[c].atts = <<"m2">>
        /\ call[c].nAttach = 0
        /\ volAttach["v1"] = <<"m2">> /\ volStatus["v1"] = "attached"

\* C2: a ControllerPublishVolume whose volume (as read by its GetVolume) is
\* already attached to the resolved target machine ends with success having
\* issued no attach call and no status query.
C2_PublishIdempotent ==
    \A c \in Slots :
        (Publishes(c) /\ Resolved(c) /\ SnapshotOn(c, call[c].target))
        => (Done(c) /\ call[c].code = "OK"
              /\ call[c].nAttach = 0 /\ call[c].polls = 0)

\* a publish repeated on a volume that is attached to its machine: success,
\* no attach call, no poll
C2_Witness ==
    \E c \in Slots :
        /\ Publishes(c) /\ Done(c) /\ call[c].code = "OK"
        /\ call[c].target = "m3" /\ call[c].atts = <<"m3">>
        /\ call[c].nAttach = 0 /\ call[c].polls = 0
        /\ volStatus["v1"] = "attached"

\* two publishes of one volume to different machines have both returned
\* success
BothPublished(a, b) ==
    /\ a # b
    /\ Publishes(a) /\ Done(a) /\ call[a].code = "OK"
    /\ Publishes(b) /\ Done(b) /\ call[b].code = "OK"
    /\ call[a].vol = call[b].vol
    /\ call[a].target # call[b].target

\* an unpublish has issued a detach for volume v
DetachIssued(v) ==
    \E u \in Slots : Unpublishes(u) /\ call[u].vol = v /\ call[u].nDetach > 0

AtMostOneAttachment == \A v \in ExistingVolumes : Len(volAttach[v]) <= 1

\* C3, as stated: under any interleaving of concurrent publish and unpublish
\* calls every volume has at most one live attachment and at most one of two
\* concurrent publishes to different machines returns success.  (Under
\* SpecConc the requests arrive before any call returns, so any two calls of
\* a behaviour are concurrent.)
C3_Original ==
    /\ AtMostOneAttachment
    /\ \A a, b \in Slots : ~BothPublished(a, b)

\* C3, amended: every volume has at most one live attachment at all times, and
\* at most one of two concurrent publishes to different machines returns
\* success as long as no unpublish has issued a detach for that volume.
C3_Amended ==
    /\ AtMostOneAttachment
    /\ \A a, b \in Slots :
         BothPublished(a, b) => DetachIssued(call[a].vol)

\* two concurrent publishes of the unattached volume to m1 and m3, no detach:
\* one attached and succeeded, the other's attach was refused
C3_Witness ==
    \E a, b \in Slots :
        /\ Publishes(a) /\ Done(a) /\ call[a].code = "OK" /\ call[a].nAttach = 1
        /\ Publishes(b) /\ Done(b) /\ call[b].code = "Unknown" /\ call[b].nAttach = 1
        /\ call[a].target = "m1" /\ call[b].target = "m3"
        /\ call[a].atts = <<>> /\ call[b].atts = <<>>
        /\ ~DetachIssued("v1")
        /\ volAttach["v1"] = <<"m1">>

\* slot c's handler returns in this step
Returns(c) == call[c].pc # "done" /\ call'[c].pc = "done"

\* the status the handler's write makes it wait for
Awaited(c) == IF call[c].kind = "publish" THEN "attached" ELSE "available"

\* C4: a ControllerPublishVolume that issued an attach, and a
\* ControllerUnpublishVolume that issued a detach, return success only in a
\* poll turn whose status query finds the volume "attached", respectively
\* "available", at the remote service; the k-th query is made k poll
\* intervals (10 s) after the first, none later than the deadline (300 s).
C4_SuccessOnlyAfterObserved ==
    [][\A c \in Slots :
         (Returns(c) /\ call'[c].code = "OK"
             /\ (call[c].nAttach > 0 \/ call[c].nDetach > 0))
         => /\ call[c].pc = "poll"
            /\ call'[c].polls = call[c].polls + 1
            /\ StatusOf(call[c].vol) = Awaited(c)
            /\ call[c].elapsed = call[c].polls * PollInterval
            /\ call[c].elapsed <= PollTimeout]_vars

\* a publish attached the volume and returned success on its third status
\* query, the volume being attached to its machine
C4_Witness ==
    \E c \in Slots :
        /\ Publishes(c) /\ Done(c) /\ call[c].code = "OK"
        /\ call[c].nAttach = 1 /\ call[c].polls = 3
        /\ call[c].elapsed = 2 * PollInterval
        /\ volStatus["v1"] = "attached" /\ volAttach["v1"] = <<call[c].target>>

\* the poll of slot c ends at its deadline in this step: a turn at or after
\* 300 s that makes no status query, the caller not having cancelled
DeadlineReturn(c) ==
    /\ call[c].pc = "poll" /\ Returns(c)
    /\ ~call[c].cancelled
    /\ call[c].elapsed >= PollTimeout
    /\ call'[c].polls = call[c].polls

\* C5: when the poll deadline passes before the volume is "attached"
\* (publish) or "available" (unpublish), the handler returns an error whose
\* code is Internal.
C5_TimeoutIsInternal ==
    [][\A c \in Slots : DeadlineReturn(c) => call'[c].code = "Internal"]_vars

\* C6: the poll looks at the caller's context on every turn: once the
\* caller has cancelled, the next turn of the poll returns an error, a turn
\* after the first without making a status query; and a handler that has
\* returned makes no further call.
C6_CancelEndsPoll ==
    [][\A c \in Slots :
         /\ (call[c].pc = "poll" /\ call[c].cancelled /\ call'[c] # call[c])
            => /\ call'[c].pc = "done"
               /\ call'[c].code # "OK"
               /\ (call[c].polls > 0 => call'[c].polls = call[c].polls)
         /\ (call[c].pc = "done" /\ call'[c] # call[c])
            => call'[c] = IdleCall]_vars

\* a publish whose caller cancelled between two poll turns: it made one
\* status query, then returned an error without another
C6_Witness ==
    \E c \in Slots :
        /\ Publishes(c) /\ Done(c) /\ call[c].cancelled
        /\ call[c].nAttach = 1 /\ call[c].polls = 1
        /\ call[c].elapsed = PollInterval
        /\ call[c].code = "Unknown"

\* machine m answers to the node reference
Matches(m, ref) == m.Name = ref \/ m.Identity = ref \/ m.Slug = ref

\* i is the first machine of the list that answers to the reference
IsFirstMatch(machines, ref, i) ==
    /\ i \in 1..Len(machines)
    /\ Matches(machines[i], ref)
    /\ \A j \in 1..(i - 1) : ~Matches(machines[j], ref)

NoMatch(machines, ref) == \A i \in 1..Len(machines) : ~Matches(machines[i], ref)

\* the handler ran to its end with no failure of the remote service or the
\* transport and no cancellation
Undisturbed(c) == Done(c) /\ ~call[c].faulted /\ ~call[c].cancelled

\* C7: a ControllerPublishVolume whose GetVolume is answered not-found, with
\* or without a server message, returns NotFound and makes no machine lookup,
\* machine listing, attach or status query.
C7_AbsentVolumeNotFound ==
    \A c \in Slots :
        (Publishes(c) /\ call[c].volErr \in NotFoundErrors)
        => /\ Done(c) /\ call[c].code = "NotFound"
           /\ call[c].nGetMachine = 0 /\ call[c].nList = 0
           /\ call[c].nAttach = 0 /\ call[c].polls = 0

\* C8: ControllerPublishVolume looks the node reference up as a machine
\* identity first and on a hit works on that identity; it lists the machines
\* only after that lookup missed, and after a miss it does list them: it
\* then works on the identity of the first machine whose name, identity or
\* slug is the reference, and when none is it returns NotFound with no
\* attach call.
C8_NodeResolution ==
    \A c \in Slots : Publishes(c) =>
        /\ call[c].nList > 0 => call[c].machErr \in NotFoundErrors
        /\ (Resolved(c) /\ call[c].machErr = "nil") => call[c].target = call[c].node
        /\ (Resolved(c) /\ call[c].machErr # "nil")
             => \E i \in 1..Len(Machines) :
                   /\ IsFirstMatch(Machines, call[c].node, i)
                   /\ call[c].target = Machines[i].Identity
        /\ (Undisturbed(c) /\ call[c].machErr \in NotFoundErrors)
             => /\ call[c].nList = 1
                /\ NoMatch(Machines, call[c].node)
                     => (call[c].code = "NotFound" /\ call[c].nAttach = 0)
                /\ ~NoMatch(Machines, call[c].node) => Resolved(c)

\* C9: a ControllerUnpublishVolume returns success without a detach call
\* when its GetVolume is answered not-found (with or without a server
\* message), and when the node reference is no machine identity and answers
\* to no machine of the list.
C9_UnpublishAbsentSucceeds ==
    \A c \in Slots : Unpublishes(c) =>
        /\ call[c].volErr \in NotFoundErrors
             => (Done(c) /\ call[c].code = "OK" /\ call[c].nDetach = 0)
        /\ ( /\ Undisturbed(c)
             /\ call[c].machErr \in NotFoundErrors
             /\ NoMatch(ScopedMachines, call[c].node) )
             => (call[c].code = "OK" /\ call[c].nDetach = 0)

\* C10: a ControllerUnpublishVolume for an existing volume that has no
\* attachment to the resolved machine returns success.
C10_UnpublishIdempotent ==
    \A c \in Slots :
        ( /\ Unpublishes(c) /\ Undisturbed(c) /\ Resolved(c)
          /\ call[c].nDetach = 1 /\ ~call[c].attachedAtDetach )
        => call[c].code = "OK"

\* ------------------------------------------------- lifecycle claim helpers
CreateDone == rpc.kind = "createVolume" /\ rpc.pc = "done"
Issued(what) == \E j \in 1..Len(rpc.remote) : rpc.remote[j] = what
LastCall == IF rpc.remote = <<>> THEN "" ELSE rpc.remote[Len(rpc.remote)]
NamedLike(name) == {i \in 1..Len(volumes) : volumes[i].Name = name}

\* volume i was made by an earlier CreateVolume of the running call's name
\* and size
EarlierCreate(i) ==
    /\ volumes[i].Name = rpc.name
    /\ volumes[i].Requested = rpc.size
    /\ ~(rpc.reason = "created" /\ rpc.result = volumes[i].Identity)

\* C11: a CreateVolume that repeats the name and the size of an earlier
\* create, and meets no remote failure, returns success with the identity
\* of the earlier volume and issues no remote create; one volume of that
\* name exists afterwards.
C11_RepeatedCreateSameIdentity ==
    (CreateDone /\ rpc.remote # <<>> /\ rpc.reason # "remote") =>
        \A i \in 1..Len(volumes) :
            EarlierCreate(i) =>
                /\ rpc.code = "OK"
                /\ rpc.result = volumes[i].Identity
                /\ ~Issued("CreateVolume")
                /\ Cardinality(NamedLike(rpc.name)) = 1

\* the probe of the running CreateVolume found a volume of another size
ProbeMismatch(r) ==
    /\ r.kind = "createVolume"
    /\ r.found # <<>>
    /\ r.found[1].Size * giB # r.size

ValidationReasons ==
    {"name", "capabilities", "capacity", "topology", "snapshotId"}

\* C13: a CreateVolume that fails a validation of its request (name,
\* capabilities, capacity range, topology, empty snapshot id) has made no
\* remote call.
C13_ValidationBeforeRemote ==
    (CreateDone /\ rpc.reason \in ValidationReasons) => rpc.remote = <<>>

\* C14: a DeleteVolume or DeleteSnapshot that the remote service answers
\* with not-found returns success, and after any successful delete the id
\* names nothing, so that a repeat is answered the same way.
C14_DeleteAbsentSucceeds ==
    (rpc.pc = "done" /\ rpc.kind \in {"deleteVolume", "deleteSnapshot"}) =>
        /\ rpc.err \in NotFoundErrors => rpc.code = "OK"
        /\ rpc.code = "OK" =>
              IF rpc.kind = "deleteVolume"
              THEN \A i \in 1..Len(volumes) : volumes[i].Identity # rpc.ref
              ELSE rpc.ref \notin SnapshotIdentities

C14_Witness ==
    /\ rpc.pc = "done" /\ rpc.kind = "deleteVolume"
    /\ rpc.err = "Join(ErrNotFound,msg)" /\ rpc.code = "OK"
    /\ rpc.ref = "vol-0"

\* the volume types an exact identity test / a case-blind name test accepts
IdentityHits(types, param) ==
    {i \in 1..Len(types) : types[i].Identity = param}
NameHits(types, param) ==
    {i \in 1..Len(types) : EqualFold(types[i].Name, param)}
Least(S) == CHOOSE i \in S : \A j \in S : i <= j

\* the running CreateVolume has received the list of volume types
TypesListed ==
    /\ rpc.kind = "createVolume" /\ Len(rpc.remote) >= 2
    /\ ~(rpc.reason = "remote" /\ LastCall = "ListVolumeTypes")

\* C15: the type id is that of the first type whose identity equals the
\* parameter, else that of the first type whose name equals it without
\* regard to case; with neither, CreateVolume returns InvalidArgument and
\* issues no remote create.
C15_VolumeTypeStrategies ==
    TypesListed =>
        LET ids   == IdentityHits(rpc.types, rpc.typeParam)
            names == NameHits(rpc.types, rpc.typeParam)
        IN  IF ids # {}
            THEN rpc.reason # "volumeType" =>
                     rpc.typeId = rpc.types[Least(ids)].Identity
            ELSE IF names # {}
            THEN rpc.reason # "volumeType" =>
                     rpc.typeId = rpc.types[Least(names)].Identity
            ELSE /\ rpc.pc = "done" /\ rpc.code = "InvalidArgument"
                 /\ ~Issued("CreateVolume")

\* the keys that identify the driver
DriverLabelKeys == {csiDriverLabel, csiDriverNameLabel}

\* C16: in the labels and annotations of a remote volume create every
\* operator-supplied key carries the operator's value, and every
\* driver-identifying key is present.
C16_OperatorKeysWin ==
    (rpc.kind = "createVolume" /\ Issued("CreateVolume")) =>
        LET req == rpc.volumeReq[1]
        IN  /\ \A k \in DOMAIN config.CustomLabels :
                  k \in DOMAIN req.Labels
                  /\ req.Labels[k] = config.CustomLabels[k]
            /\ \A k \in DOMAIN config.CustomAnnotations :
                  k \in DOMAIN req.Annotations
                  /\ req.Annotations[k] = config.CustomAnnotations[k]
            /\ DriverLabelKeys \subseteq DOMAIN req.Labels

\* the running CreateVolume restores from a snapshot
FromSnapshot ==
    rpc.kind = "createVolume" /\ rpc.source \notin {NoSource, ""}

\* C17: with a snapshot source, a remote volume create is issued only after
\* a snapshot lookup that succeeded; a lookup answered with not-found ends
\* the call with NotFound and no create.
C17_SnapshotLookupFirst ==
    FromSnapshot =>
        /\ \A j \in 1..Len(rpc.remote) :
              rpc.remote[j] = "CreateVolume" =>
                  /\ j > 1 /\ rpc.remote[j - 1] = "GetSnapshot"
                  /\ rpc.volumeReq[1].RestoreFromSnapshotId = rpc.source
        /\ (LastCall = "GetSnapshot" /\ rpc.err \in NotFoundErrors) =>
              (rpc.pc = "done" /\ rpc.code = "NotFound")

C17_Witness ==
    /\ FromSnapshot /\ rpc.pc = "done" /\ rpc.code = "NotFound"
    /\ LastCall = "GetSnapshot" /\ rpc.source \notin SnapshotIdentities

\* C18: a ListVolumes response holds no more entries than the effective
\* page size (the caller's max_entries, else the driver's default).
C18_PageSizeBounds ==
    (rpc.kind = "listVolumes" /\ rpc.code = "OK" /\ rpc.maxEntries > 0) =>
        rpc.entries <= rpc.maxEntries

\* a node handler of the given kind has returned in slot c
NodeDone(c, kind) == nodeCall[c].pc = "done" /\ nodeCall[c].kind = kind

\* C19: NodeStageVolume with mount access invokes format only when the
\* volume context carries no no-format marker and the device carries no
\* filesystem signature: over any sequence of Stage and Unstage calls a
\* signed device is never formatted, so each device is formatted at most
\* once.
C19_FormatOnlyUnsigned ==
    /\ [](\A d \in Devices : host.formats[d] <= 1)
    /\ [][\A c \in DOMAIN nodeCall :
            nodeCall'[c].nFormat > nodeCall[c].nFormat =>
                /\ nodeCall[c].kind = "NodeStageVolume"
                /\ nodeCall[c].access = "mount"
                /\ ~nodeCall[c].noFormat
                /\ ~host.signed[nodeCall[c].vol]]_vars

\* C19 (witness): a device the driver formatted in an earlier Stage is
\* staged again without the marker; the probe finds the signature and the
\* call succeeds without a format.
C19_Witness ==
    \E c \in DOMAIN nodeCall :
        /\ NodeDone(c, "NodeStageVolume")
        /\ nodeCall[c].code = "OK"
        /\ ~nodeCall[c].noFormat
        /\ nodeCall[c].probedSigned
        /\ nodeCall[c].nFormat = 0
        /\ host.formats[nodeCall[c].vol] = 1

\* C20: NodeStageVolume on a staging path that is already mounted, and
\* NodePublishVolume on a target path that is already mounted, return
\* success without invoking mount (no OS command having failed), and no
\* path is ever mounted twice.
C20_MountedPathSucceeds ==
    /\ \A c \in DOMAIN nodeCall :
         ( /\ nodeCall[c].pc = "done"
           /\ nodeCall[c].kind \in {"NodeStageVolume", "NodePublishVolume"}
           /\ nodeCall[c].probedMounted
           /\ ~nodeCall[c].osFailed )
         => (nodeCall[c].code = "OK" /\ nodeCall[c].nMount = 0)
    /\ \A p \in MountPoints : host.mounted[p] <= 1

\* C21: whenever attachment validation is enabled, NodeStageVolume with
\* mount access on a device whose attachment check fails (the state file
\* does not read "running") returns Internal and invokes neither format
\* nor mount.
C21_UnattachedNeverStaged ==
    \A c \in DOMAIN nodeCall :
        ( /\ NodeDone(c, "NodeStageVolume")
          /\ nodeCall[c].access = "mount"
          /\ nodeCall[c].vol \in Devices
          /\ nodeCall[c].staging # ""
          /\ validateAttachment
          /\ ~IsAttached(host.state[nodeCall[c].vol]) )
        => ( /\ nodeCall[c].code = "Internal"
             /\ nodeCall[c].nFormat = 0
             /\ nodeCall[c].nMount = 0 )

\* C22: with block capability NodeStageVolume is a no-op (no attachment
\* check, no format, no mount: no OS command at all) and NodePublishVolume
\* mounts with an empty filesystem type and the bind and ro options only;
\* with mount capability every Mount is given a filesystem type, "ext4"
\* when the capability names none.
C22_BlockMountBranching ==
    \A c \in DOMAIN nodeCall :
        /\ ( /\ NodeDone(c, "NodeStageVolume")
              /\ nodeCall[c].access = "block"
              /\ nodeCall[c].vol # "" /\ nodeCall[c].staging # "" )
           => (nodeCall[c].code = "OK" /\ nodeCall[c].cmds = {})
        /\ nodeCall[c].access = "block" =>
              \A i \in DOMAIN nodeCall[c].mountCalls :
                  /\ nodeCall[c].kind = "NodePublishVolume"
                  /\ nodeCall[c].mountCalls[i].fsType = ""
                  /\ nodeCall[c].mountCalls[i].options
                        \in {<<"bind">>, <<"bind", "ro">>}
        /\ nodeCall[c].access = "mount" =>
              \A i \in DOMAIN nodeCall[c].mountCalls :
                  /\ nodeCall[c].mountCalls[i].fsType # ""
                  /\ nodeCall[c].reqFsType = ""
                        => nodeCall[c].mountCalls[i].fsType = "ext4"

\* C22 (witness): a read-only NodePublishVolume with block capability has
\* bind-mounted the device on the target path.
C22_Witness ==
    \E c \in DOMAIN nodeCall :
        /\ NodeDone(c, "NodePublishVolume")
        /\ nodeCall[c].access = "block"
        /\ nodeCall[c].code = "OK"
        /\ nodeCall[c].mountCalls = <<[fsType |-> "",
                                       options |-> <<"bind", "ro">>]>>
        /\ host.mounted[nodeCall[c].target] = 1

\* the path an unmounting handler works on
UnmountPath(r) == IF r.kind = "NodeUnstageVolume" THEN r.staging ELSE r.target

\* C23: NodeUnstageVolume and NodeUnpublishVolume are idempotent unmounts:
\* on a path that is not mounted they return success, after a successful
\* call the path is not mounted (so a repeated call succeeds), and an
\* unmount failure is returned as an error and leaves the path mounted.
C23_UnmountIdempotent ==
    \A c \in DOMAIN nodeCall :
        ( /\ nodeCall[c].pc = "done"
          /\ nodeCall[c].kind \in {"NodeUnstageVolume", "NodeUnpublishVolume"}
          /\ nodeCall[c].code # "InvalidArgument" )
        => /\ (~nodeCall[c].probedMounted /\ ~nodeCall[c].osFailed)
                => nodeCall[c].code = "OK"
           /\ nodeCall[c].code = "OK"
                => host.mounted[UnmountPath(nodeCall[c])] = 0
           /\ ("umount" \in nodeCall[c].cmds /\ nodeCall[c].osFailed)
                => /\ nodeCall[c].code # "OK"
                   /\ host.mounted[UnmountPath(nodeCall[c])] > 0

\* C23 (witness): NodeUnstageVolume found the staging path mounted, ran
\* the unmount and returned success with the path no longer mounted.
C23_Witness ==
    \E c \in DOMAIN nodeCall :
        /\ NodeDone(c, "NodeUnstageVolume")
        /\ nodeCall[c].code = "OK"
        /\ nodeCall[c].probedMounted
        /\ "umount" \in nodeCall[c].cmds
        /\ host.mounted[nodeCall[c].staging] = 0

\* C24: NodeExpandVolume applies to mount access only: on a volume path
\* that is not mounted it fails with FailedPrecondition and resizes
\* nothing; with block capability it returns success without a mount
\* table query and without a resize.
C24_ExpandPrecondition ==
    \A c \in DOMAIN nodeCall :
        ( /\ NodeDone(c, "NodeExpandVolume")
          /\ nodeCall[c].code # "InvalidArgument" )
        => /\ ( /\ nodeCall[c].access # "block"
                 /\ ~nodeCall[c].probedMounted
                 /\ ~nodeCall[c].osFailed )
                => /\ nodeCall[c].code = "FailedPrecondition"
                   /\ "resize" \notin nodeCall[c].cmds
           /\ nodeCall[c].access = "block"
                => (nodeCall[c].code = "OK" /\ nodeCall[c].cmds = {})

\* C25: NodeGetVolumeStats on a mounted path branches on block versus
\* filesystem: a block device gets exactly one usage entry, in bytes, with
\* the total only; a filesystem gets a bytes entry and an inodes entry,
\* each with available, total and used; a path that is not mounted gets
\* NotFound.
C25_StatsBranching ==
    \A c \in DOMAIN nodeCall :
        ( /\ NodeDone(c, "NodeGetVolumeStats")
          /\ nodeCall[c].code # "InvalidArgument" )
        => LET usage == nodeCall[c].usage
           IN /\ (~nodeCall[c].probedMounted /\ ~nodeCall[c].osFailed)
                   => nodeCall[c].code = "NotFound"
              /\ nodeCall[c].code = "OK" =>
                   /\ nodeCall[c].probedMounted
                   /\ IF host.device[nodeCall[c].target]
                      THEN /\ Len(usage) = 1
                           /\ usage[1].Unit = "BYTES"
                           /\ usage[1].Total \in DeviceSizes
                           /\ usage[1].Available = 0 /\ usage[1].Used = 0
                      ELSE /\ Len(usage) = 2
                           /\ usage[1].Unit = "BYTES"
                           /\ usage[2].Unit = "INODES"
                           /\ \A i \in 1..2 :
                                /\ usage[i].Total > 0
                                /\ usage[i].Available <= usage[i].Total
                                /\ usage[i].Used <= usage[i].Total
                                /\ usage[i].Available + usage[i].Used
                                     <= usage[i].Total
              /\ nodeCall[c].code # "OK" => usage = <<>>

\* C25 (witness): the statistics of a raw block publish were returned.
C25_Witness ==
    \E c \in DOMAIN nodeCall :
        /\ NodeDone(c, "NodeGetVolumeStats")
        /\ nodeCall[c].code = "OK"
        /\ host.device[nodeCall[c].target]
        /\ Len(nodeCall[c].usage) = 1

\* the snapshots that carry a name
Named(name) == {s \in snapshots : s.Name = name}

\* a CreateSnapshot has returned
SnapshotDone == rpc.kind = "createSnapshot" /\ rpc.pc = "done"

\* C26: CreateSnapshot is idempotent by exact name: when a snapshot of
\* exactly the requested name exists, no volume lookup and no remote
\* snapshot create is made, so repeated calls with one name return the same
\* snapshot identity and at most one remote create is issued per name.
C26_SnapshotIdempotentByName ==
    /\ [](\A name \in {"snap-a", "snap-b"} : Cardinality(Named(name)) <= 1)
    /\ [](SnapshotDone /\ rpc.code = "OK"
            => \E s \in Named(rpc.name) : s.Identity = rpc.result)
    /\ [][( /\ rpc.kind = "createSnapshot"
            /\ rpc.pc = "listSnapshots"
            /\ Named(rpc.name) # {}
            /\ rpc'.pc # rpc.pc )
          => /\ rpc'.pc \in {"wait", "done"}
             /\ rpc'.remote = <<"ListSnapshots">>
             /\ rpc'.pc = "wait" =>
                  \E s \in Named(rpc.name) : s.Identity = rpc'.result]_vars
    /\ [](rpc.kind = "createSnapshot" /\ Named(rpc.name) # {}
            /\ (Issued("ListVolumes") \/ Issued("CreateSnapshot"))
            => ( /\ Issued("CreateSnapshot")
                 /\ \A s \in Named(rpc.name) : s.Identity = rpc.result ))

\* C26 (witness): a repeated CreateSnapshot found the snapshot an earlier
\* call created, made no volume lookup and no create, and returned its
\* identity.
C26_Witness ==
    /\ SnapshotDone /\ rpc.code = "OK"
    /\ rpc.remote = <<"ListSnapshots", "WaitUntilSnapshotIsAvailable",
                      "GetSnapshot">>
    /\ rpc.result # ExistingSnapshot.Identity
    /\ \E s \in Named(rpc.name) : s.Identity = rpc.result

\* the volumes whose name is the source volume id of the request
SourceMatches == {i \in 1..Len(volumes) : volumes[i].Name = rpc.ref}

\* C27: when no snapshot of the requested name exists, CreateSnapshot
\* searches the volumes whose name equals the source volume id and wants
\* exactly one: zero matches return NotFound, more than one Internal, and
\* in both cases no remote snapshot create is issued.
C27_SourceVolumeExactlyOne ==
    ( /\ SnapshotDone
      /\ LastCall = "ListVolumes"
      /\ rpc.err = "nil" )
    => /\ ~Issued("CreateSnapshot")
       /\ Named(rpc.name) = {}
       /\ Cardinality(SourceMatches) # 1
       /\ Cardinality(SourceMatches) = 0 => rpc.code = "NotFound"
       /\ Cardinality(SourceMatches) > 1 => rpc.code = "Internal"

\* C28: CreateSnapshot returns success only after the remote service has
\* reported the snapshot available: the wait has no deadline of its own
\* (it ends without that report only on an error of the client call), a
\* cancelled call ends with an error at its next step, and no success is
\* returned for a snapshot not observed available.
C28_SuccessOnlyWhenAvailable ==
    /\ [](SnapshotDone /\ rpc.code = "OK"
            => EqualFold(rpc.observed, "available"))
    /\ [][( /\ rpc.kind = "createSnapshot" /\ rpc.pc = "wait"
            /\ rpc' # rpc /\ ~rpc'.cancelled )
          => \/ rpc'.pc = "wait" /\ rpc'.observed # SnapshotStatusAvailable
             \/ rpc'.pc = "get" /\ EqualFold(rpc'.observed, "available")
             \/ rpc'.pc = "done" /\ rpc'.code # "OK" /\ rpc'.err # "nil"]_vars
    /\ [][( /\ rpc.kind = "createSnapshot" /\ rpc.cancelled
            /\ rpc.pc \notin {"idle", "done"}
            /\ rpc' # rpc )
          => (rpc'.pc = "done" /\ rpc'.code # "OK")]_vars

\* C28 (witness): the call created the snapshot, saw it still being
\* created, waited, saw it available and returned success.
C28_Witness ==
    /\ SnapshotDone /\ rpc.code = "OK"
    /\ Issued("CreateSnapshot")
    /\ EqualFold(rpc.observed, "available")
    /\ \E s \in Named(rpc.name) : s.Identity = rpc.result

\* a handler has resolved the capacity range of its request
SizeResolved ==
    /\ rpc.kind \in {"createVolume", "expandVolume"}
    /\ rpc.pc \in {"probe", "getVolume", "done"}
    /\ rpc.code # "InvalidArgument"

\* the resolver returned size n and no error
ResolvedTo(n) == rpc.pc \in {"probe", "getVolume"} /\ rpc.size = n

\* n lies within the platform's bounds
WithinBounds(n) ==
    minimumVolumeSizeInBytes <= n /\ n <= maximumVolumeSizeInBytes

\* C29: getStorageSizeFromCapacityRange returns the default size when the
\* range is absent or both required and limit are 0, the limit when only
\* the limit is set, the required size when only required is set, and the
\* common value when required equals limit (all within the minimum and the
\* maximum), with no error.
C29_ResolvedSize ==
    SizeResolved =>
      LET c == rpc.capRange
      IN  /\ (~c.present \/ (c.required = 0 /\ c.limit = 0))
                => ResolvedTo(defaultVolumeSizeInBytes)
          /\ (c.present /\ c.required = 0 /\ WithinBounds(c.limit))
                => ResolvedTo(c.limit)
          /\ (c.present /\ c.limit = 0 /\ WithinBounds(c.required))
                => ResolvedTo(c.required)
          /\ (c.present /\ c.required = c.limit /\ WithinBounds(c.required))
                => ResolvedTo(c.required)

\* C29 (witness): CreateVolume resolved a range with only the limit set to
\* that limit, which is not the default size.
C29_Witness ==
    /\ SizeResolved /\ rpc.kind = "createVolume"
    /\ rpc.capRange.present /\ rpc.capRange.required = 0
    /\ rpc.capRange.limit # defaultVolumeSizeInBytes
    /\ ResolvedTo(rpc.capRange.limit)

\* the request asks for a non-zero size below the platform minimum
RequiredBelowMinimum ==
    /\ SizeResolved
    /\ rpc.capRange.present
    /\ 0 < rpc.capRange.required
    /\ rpc.capRange.required < minimumVolumeSizeInBytes

RangeInError ==
    LET c == rpc.capRange
    IN  /\ c.present
        /\ \/ c.required > maximumVolumeSizeInBytes
           \/ (c.limit > 0 /\ c.limit < minimumVolumeSizeInBytes)
           \/ c.limit > maximumVolumeSizeInBytes
           \/ (c.limit > 0 /\ c.limit < c.required)

C32_RemoteFailureIsInternal ==
    ( /\ rpc.pc = "done"
      /\ rpc.remote # <<>>
      /\ rpc.err # "nil"
      /\ ~IsNotFound(rpc.err) )
    => rpc.code = "Internal"

\* C33: the snapshot-availability wait accepts its target status in any
\* letter case, as the attach poll and the detach poll do: a call that has
\* been told "available" in some letter case is not left waiting.
C33_WaitFoldsCase ==
    ~( /\ rpc.kind = "createSnapshot"
       /\ rpc.pc = "wait"
       /\ EqualFold(rpc.observed, "available") )

\* C34: HealthChecker.Check completes on the first failure or on
\* all-success: it returns nil exactly when every check succeeded, and once
\* one check has failed it can return that failure without waiting for the
\* checks that are still running.
C34_FirstFailureOrAllSuccess ==
    /\ health.pc = "returned"
         => ( /\ health.result = "nil"
                   <=> \A i \in DOMAIN health.checks : health.checks[i] = "ok"
              /\ health.result = "nil" \/ health.result = health.err )
    /\ (health.pc = "wait" /\ health.err # "") => ENABLED HealthCheckWait

\* the flag is false until the listener is bound, true while serving, and
\* false from the start of the graceful drain on
ReadinessFollowsLifecycle ==
    /\ server.phase \in {"new", "failed", "bound"} => ~server.ready
    /\ server.phase \in {"registered", "serving"} => server.ready
    /\ server.phase \in {"cleared", "draining", "stopped"} => ~server.ready

\* C35: the readiness flag read by Probe is false until the listener is
\* bound, true while serving, and false again from the start of shutdown
\* before the graceful drain begins; every write and every read of the
\* flag is made under the readiness lock.
C35_ReadinessUnderLock ==
    /\ ReadinessFollowsLifecycle
    /\ server.unguarded = {}

\* call c is a NodeStageVolume with mount access that has returned
StageDone(c) ==
    /\ nodeCall[c].kind = "NodeStageVolume"
    /\ nodeCall[c].pc = "done"
    /\ nodeCall[c].access = "mount"
    /\ nodeCall[c].code # "InvalidArgument"

\* call c is the Stage that was cut short, issued again
Reissued(c) ==
    /\ interrupted # <<>>
    /\ StageDone(c)
    /\ StageArguments(nodeCall[c]) = interrupted[1].args

\* nothing kept call c from going through: no OS command failed, and the
\* device passed the attachment check where one is made
Unhindered(c) ==
    /\ ~nodeCall[c].osFailed
    /\ \/ ~validateAttachment
       \/ nodeCall[c].noFormat
       \/ IsAttached(host.state[nodeCall[c].vol])

\* C36: a Stage with mount access that is interrupted after any of its
\* steps and issued again with the same arguments ends with the staging
\* path mounted, and over both runs the device is formatted at most once
\* and the path mounted at most once.
C36_InterruptedStageConverges ==
    \A c \in DOMAIN nodeCall :
      Reissued(c) =>
        /\ host.formats[nodeCall[c].vol] <= 1
        /\ host.mounted[nodeCall[c].staging] <= 1
        /\ Unhindered(c) => host.mounted[nodeCall[c].staging] = 1
        /\ nodeCall[c].code = "OK" => host.mounted[nodeCall[c].staging] = 1

\* C36 (witness): the first run was cut short after it had formatted the
\* device, and the run issued again mounted it without formatting.
C36_Witness ==
    \E c \in DOMAIN nodeCall :
      /\ Reissued(c)
      /\ interrupted[1].at = "isMounted"
      /\ host.formats[nodeCall[c].vol] = 1
      /\ nodeCall[c].nFormat = 0
      /\ nodeCall[c].nMount = 1
      /\ nodeCall[c].code = "OK"

\* C37: two concurrent NodeStageVolume calls, or a concurrent
\* NodeStageVolume and NodeUnstageVolume, for one staging path never
\* interleave their check-then-act steps: the device is formatted at most
\* once, the path is mounted at most once, and a Stage that returns
\* success does so on a path that is mounted.
C37_PerPathLock ==
    /\ [](\A d \in Devices : host.formats[d] <= 1)
    /\ [](\A p \in MountPoints : host.mounted[p] <= 1)
    /\ [][\A c \in DOMAIN nodeCall :
            ( /\ nodeCall[c].pc # "done"
              /\ nodeCall'[c].pc = "done"
              /\ nodeCall'[c].kind = "NodeStageVolume"
              /\ nodeCall'[c].access = "mount"
              /\ nodeCall'[c].code = "OK" )
            => host'.mounted[nodeCall'[c].staging] > 0]_vars

\* C38: under any sequence and any interleaving of ControllerExpandVolume
\* calls on one volume, the size the remote service keeps for the volume
\* never decreases.
C38_NeverShrinks ==
    [][\A i \in DOMAIN volumes : volumes'[i].Size >= volumes[i].Size]_vars

\* the size test of a call, as the claim words it: the size of the volume
\* the call read, in bytes, against the bytes the request resolved to
AlreadyLargeEnough(c) == expand[c].volume * giB >= expand[c].resizeBytes

\* C39: a call that succeeds on a volume already at least as large as the
\* requested size has issued no resize and answers the volume's capacity
\* with node expansion required; any other call that succeeds has issued
\* exactly one resize, to the requested size, and answers that size; a
\* capability of access type mount gets node expansion required either way.
C39_ExpandOutcome ==
    \A c \in ExpandSlots :
        expand[c].pc = "done" /\ expand[c].code = "OK" =>
            /\ IF AlreadyLargeEnough(c)
               THEN /\ expand[c].updates = <<>>
                    /\ expand[c].CapacityBytes = expand[c].volume * giB
                    /\ expand[c].NodeExpansionRequired
               ELSE /\ Len(expand[c].updates) = 1
                    /\ expand[c].updates[1] * giB = expand[c].resizeBytes
                    /\ expand[c].CapacityBytes = expand[c].resizeBytes
            /\ expand[c].accessType = "mount"
                 => expand[c].NodeExpansionRequired

\* the call is in the wait for its snapshot; the state the remote service
\* keeps for that snapshot
Waiting == rpc.kind = "createSnapshot" /\ rpc.pc = "wait"
WaitedIs(status) ==
    \E s \in snapshots : s.Identity = rpc.result /\ s.Status = status

\* C40: a CreateSnapshot call in the wait returns once its snapshot is
\* available or its context is cancelled; it leaves the wait only for an
\* available snapshot or with the error of a failed or cancelled read, so
\* with a snapshot that has failed it stays in the wait as long as the
\* reads succeed.
C40_WaitExits ==
    /\ (Waiting /\ (WaitedIs("available") \/ rpc.cancelled))
          ~> (rpc.pc = "done")
    /\ [][ Waiting /\ ~Waiting'
             => \/ rpc'.pc = "get" /\ WaitedIs("available")
                \/ rpc'.pc = "done" /\ rpc'.err # "nil" ]_vars
    /\ [][ Waiting /\ WaitedIs("failed") /\ rpc'.err = "nil"
             => Waiting' ]_vars

====
